---- MODULE Spec2Model ----
(***************************************************************************)
(* State-machine model of the session / interrupt layer of the browser     *)
(* automation agent (browser_use_agent):                                   *)
(*   - the sub-agent interrupt forwarder  (subagent_interrupt.py)          *)
(*   - the stream port allocator          (utils.py, StreamManager)        *)
(*   - the browser session registry, the browser tools and the idle        *)
(*     reaper                             (tools.py)                       *)
(* Each component has its own specification (SpecFwd, SpecPort, SpecSess,  *)
(* SpecStart) over the variables it owns; the other variables stay put.    *)
(***************************************************************************)
EXTENDS Integers, Sequences, FiniteSets, TLC

VARIABLES
    psiKey,     \* "pending_subagent_interrupts" in parent_state
    psi,        \* parent_state["pending_subagent_interrupts"] (<<>> when the key is absent)
    spc,        \* per sub-agent: position inside execute_subagent_with_interrupt_capture
    sinfo,      \* per sub-agent: the interrupt_info built at lines 72-80 (<<>> when none)
    uuidCount,  \* number of uuid.uuid4() values stored so far
    lastCall,   \* the last operation that wrote parent_state or completed a forwarder call, and what it returned
    given       \* history: interrupt id -> value passed to the last accepted respond (<<>> when none)

fwdVars == <<psiKey, psi, spc, sinfo, uuidCount, lastCall, given>>

VARIABLES
    active_ports,   \* stream_manager._active_ports: thread id -> port, on the allocated threads
    portCall,       \* the last StreamManager call made directly, and what it returned
    firstPort,      \* history: thread id -> the port of its first allocation (0 before it)
    relSeen         \* history: the threads whose mapping a release_port has removed

portVars == <<active_ports, portCall, firstPort, relSeen>>

VARIABLES
    browser_sessions,   \* tools._browser_sessions in insertion order: a sequence of session records
    now,                \* the clock datetime.now() reads, in seconds
    tpc,                \* per thread: position of the tool call it has in flight
    tres,               \* per thread: what its _run_browser_command call returned (held until the tool returns)
    wasClosed,          \* per thread: its session was inactive or absent when the browser_close in flight was called
    closedDone,         \* history: per thread, a browser_close has returned and no browser_navigate was issued since
    rpc,                \* position of the reaper (_cleanup_inactive_sessions)
    rlist,              \* the reaper's inactive_threads still to close
    rres                \* the reaper's result of the close command

sessVars == <<browser_sessions, now, tpc, tres, wasClosed, closedDone, rpc, rlist, rres>>

VARIABLES
    cleanup_thread,     \* tools._cleanup_thread: 0 for None, else the number of a Thread object
    cleanup_running,    \* tools._cleanup_running
    nthreads,           \* Thread objects created so far
    tstate,             \* per Thread object: "none", "new", "entry" (started), "loop", "exited"
    cpc,                \* per caller: position inside _start_cleanup_thread
    startRaised,        \* history: a start() call raised RuntimeError
    startReturned       \* history: a _start_cleanup_thread call returned after the last
                        \* _stop_cleanup_thread call

startVars == <<cleanup_thread, cleanup_running, nthreads, tstate, cpc, startRaised, startReturned>>

VARIABLES
    toolCall            \* the last browser tool call other than navigate and close, and what it returned

toolVars == <<toolCall>>

VARIABLES
    human_requests,     \* human_loop._human_requests in insertion order: a sequence of request records
    request_counter,    \* human_loop._request_counter
    loop,               \* per thread: its agent loop is "running" or "interrupted" (inside interrupt())
    hlCall              \* the last step of a loop or of the human, and what it returned

humanVars == <<human_requests, request_counter, loop, hlCall>>

VARIABLES
    presented_files,    \* the presented_files channel of the agent state: None or a list
    fileUpdate,         \* the update of the last Command returned by present_file
    fileUuid,           \* uuid.uuid4() values drawn by present_file so far
    fileCalls,          \* history: the present_file calls made, in order
    lastMerge           \* the last application of the reducer: its inputs and its result

fileVars == <<presented_files, fileUpdate, fileUuid, fileCalls, lastMerge>>

VARIABLES
    bashPending,        \* the bash_execute call suspended in interrupt(), or None
    bashLog,            \* history: what each run of bash_execute did, in order
    bashResult          \* the string the last bash_execute returned

bashVars == <<bashPending, bashLog, bashResult>>

VARIABLES
    last_daemon_cleanup,    \* tools._last_daemon_cleanup: None or the time of the last completed scan
    daemon_cleanup_lock,    \* tools._daemon_cleanup_lock: None or the caller holding it
    dnow,                   \* datetime.now(), in seconds
    dpc,                    \* where each caller of _cleanup_stale_daemons is
    dforce,                 \* the force argument of each caller's call
    scanLog                 \* history: one entry per call that took the lock

daemonVars == <<last_daemon_cleanup, daemon_cleanup_lock, dnow, dpc, dforce, scanLog>>

VARIABLES
    DB_TYPE,            \* StorageConfig.DB_TYPE, read from CHECKPOINT_DB_TYPE at import
    POSTGRES_URI,       \* StorageConfig.POSTGRES_URI, read from DATABASE_URL at import
    PROJECT_ROOT,       \* StorageConfig.PROJECT_ROOT: None until get_agent_dir detected it
    gitTop,             \* what git rev-parse --show-toplevel gives: None when it fails
    storageDirs,        \* the directories the storage code has created
    ckptCall,           \* the last storage call and how it ended
    saversBuilt         \* history: the savers constructed, in order

storageVars == <<DB_TYPE, POSTGRES_URI, PROJECT_ROOT, gitTop, storageDirs, ckptCall, saversBuilt>>

VARIABLES
    lastExc             \* what the sub-agent of the last capturing call raised, whether it
                        \* was captured and whether pending_subagent_interrupts changed

captureVars == <<lastExc>>

VARIABLES
    crpc,               \* where each caller of _create_request is
    crArgs,             \* the request_type and thread_id of each caller's call
    crTmp,              \* the value of _request_counter each caller read at line 38
    crLog               \* history: the request each finished call returned

createVars == <<crpc, crArgs, crTmp, crLog>>

VARIABLES
    max_iterations,     \* the argument of run_ralph_mode
    iteration,          \* the loop variable: iterations begun so far
    state_messages,     \* initial_state["messages"]
    results,            \* the results list
    ralph_pc,           \* "loop", "after_loop", "returned" or "raised"
    ralph_ret,          \* what run_ralph_mode returned
    ralphLog            \* history: how each iteration went

ralphVars == <<max_iterations, iteration, state_messages, results, ralph_pc, ralph_ret, ralphLog>>

lastVars == <<captureVars, createVars, ralphVars>>

vars == <<fwdVars, portVars, sessVars, startVars, toolVars, humanVars, fileVars, bashVars, daemonVars, storageVars, lastVars>>

\* what the actions of one component leave alone
\* the variables of the components added after the first five
laterVars == <<fileVars, bashVars, daemonVars, storageVars, lastVars>>

notFwd == <<portVars, sessVars, startVars, toolVars, humanVars, laterVars>>
notPort == <<fwdVars, sessVars, startVars, toolVars, humanVars, laterVars>>
notSess == <<fwdVars, portCall, firstPort, relSeen, startVars, toolVars, humanVars, laterVars>>
notStart == <<fwdVars, portVars, sessVars, toolVars, humanVars, laterVars>>
notTool == <<fwdVars, portVars, startVars, humanVars, laterVars>>
notHuman == <<fwdVars, portVars, sessVars, startVars, toolVars, laterVars>>
earlyVars == <<fwdVars, portVars, sessVars, startVars, toolVars, humanVars>>
notFile == <<earlyVars, bashVars, daemonVars, storageVars, lastVars>>
notBash == <<earlyVars, fileVars, daemonVars, storageVars, lastVars>>
notDaemon == <<earlyVars, fileVars, bashVars, storageVars, lastVars>>
notStorage == <<earlyVars, fileVars, bashVars, daemonVars, lastVars>>
middleVars == <<fileVars, bashVars, daemonVars, storageVars>>
notCapture == <<portVars, sessVars, startVars, toolVars, humanVars, middleVars, createVars, ralphVars>>
notCreate == <<fwdVars, portVars, sessVars, startVars, toolVars, middleVars, captureVars, ralphVars>>
notRalph == <<earlyVars, middleVars, captureVars, createVars>>

(***************************************************************************)
(* Bounds and input sets                                                   *)
(***************************************************************************)
MaxInterrupts == 2                \* interrupts captured in one run
\* uuid.uuid4() values are fresh; the two a capturing call stores are numbered
\* 2k-1 (subagent_id) and 2k (id) for the k-th captured interrupt
MaxUuid == 2 * MaxInterrupts
Subagents == {"s1", "s2"}         \* sub-agents delegated to by one parent
Values == {"a", "b"}              \* human responses
\* shapes of what subagent.invoke raises: an Interrupt whose value is a dict with
\* a "type", an Interrupt whose value is not a dict, an exception carrying no
\* interrupt value
Raised == {"interrupt_dict", "interrupt_plain", "other"}

UnknownId == MaxUuid + 1          \* an id no stored interrupt has

None == <<>>
Some(x) == <<x>>

(***************************************************************************)
(* utils.py: StreamManager                                                 *)
(***************************************************************************)
Threads == {"t1", "t2", "t3"}     \* thread ids

base_port == 9223
max_offset == 1000

\* hashlib.md5(thread_id.encode()).hexdigest(), as the values of its hex digits
Md5Hex(thread_id) ==
    CASE thread_id = "t1" ->   \* 83f1535f99ab0bf4e9d02dfd85d3e3f7
           <<8,3,15,1,5,3,5,15,9,9,10,11,0,11,15,4,14,9,13,0,2,13,15,13,8,5,13,3,14,3,15,7>>
      [] thread_id = "t2" ->   \* 0f826a89cf68c399c5f4cf320c1a5842
           <<0,15,8,2,6,10,8,9,12,15,6,8,12,3,9,9,12,5,15,4,12,15,3,2,0,12,1,10,5,8,4,2>>
      [] thread_id = "t3" ->   \* 0b8854ad38f0a6c65807928d28195609
           <<0,11,8,8,5,4,10,13,3,8,15,0,10,6,12,6,5,8,0,7,9,2,8,13,2,8,1,9,5,6,0,9>>

\* int(digits, 16) % m, digit by digit
RECURSIVE HexMod(_, _)
HexMod(digits, m) ==
    IF digits = <<>> THEN 0
    ELSE (HexMod(SubSeq(digits, 1, Len(digits) - 1), m) * 16 + digits[Len(digits)]) % m

\* a plausible slip: the next free offset is handed out instead of the hashed one
get_port_next_free(ap, thread_id) ==
    IF thread_id \in DOMAIN ap
    THEN [ports |-> ap, ret |-> ap[thread_id]]
    ELSE LET port == base_port + Cardinality(DOMAIN ap)
         IN  [ports |-> [t \in DOMAIN ap \cup {thread_id} |->
                           IF t = thread_id THEN port ELSE ap[t]],
              ret |-> port]

\* lines 21-38
get_port_for_thread(ap, thread_id) ==
    IF thread_id \in DOMAIN ap
    THEN [ports |-> ap, ret |-> ap[thread_id]]
    ELSE LET port_offset == HexMod(Md5Hex(thread_id), max_offset)
             port == base_port + port_offset
         IN  [ports |-> [t \in DOMAIN ap \cup {thread_id} |->
                           IF t = thread_id THEN port ELSE ap[t]],
              ret |-> port]

\* lines 40-50
get_stream_url(ap, thread_id) ==
    LET r == get_port_for_thread(ap, thread_id)
    IN  [ports |-> r.ports, ret |-> <<"ws://localhost:", r.ret>>]

\* a plausible slip: del without the membership test, a KeyError when nothing is
\* allocated
release_port_unguarded(ap, thread_id) ==
    IF thread_id \in DOMAIN ap
    THEN [ports |-> [t \in DOMAIN ap \ {thread_id} |-> ap[t]], raised |-> FALSE]
    ELSE [ports |-> ap, raised |-> TRUE]

\* lines 52-59
release_port(ap, thread_id) ==
    IF thread_id \in DOMAIN ap
    THEN [ports |-> [t \in DOMAIN ap \ {thread_id} |-> ap[t]], raised |-> FALSE]
    ELSE [ports |-> ap, raised |-> FALSE]

\* lines 61-70
is_active(ap, thread_id) == thread_id \in DOMAIN ap

NoPortCall == [op |-> "none", thread |-> "", port |-> 0, had |-> FALSE, raised |-> FALSE]

InitPortVars ==
    /\ active_ports = <<>>
    /\ portCall = NoPortCall
    /\ firstPort = [t \in Threads |-> 0]
    /\ relSeen = {}

\* a call stream_manager.get_port_for_thread(t)
PortGet(t) ==
    LET r == get_port_for_thread(active_ports, t)
    IN  /\ active_ports' = r.ports
        /\ portCall' = [op |-> "get_port", thread |-> t, port |-> r.ret,
                        had |-> is_active(active_ports, t), raised |-> FALSE]
        /\ firstPort' = IF firstPort[t] = 0 THEN [firstPort EXCEPT ![t] = r.ret] ELSE firstPort
        /\ UNCHANGED relSeen
    /\ UNCHANGED notPort

\* a call stream_manager.get_stream_url(t)
PortUrl(t) ==
    LET r == get_stream_url(active_ports, t)
    IN  /\ active_ports' = r.ports
        /\ portCall' = [op |-> "get_stream_url", thread |-> t, port |-> r.ret[2],
                        had |-> is_active(active_ports, t), raised |-> FALSE]
        /\ firstPort' = IF firstPort[t] = 0 THEN [firstPort EXCEPT ![t] = r.ret[2]] ELSE firstPort
        /\ UNCHANGED relSeen
    /\ UNCHANGED notPort

\* a call stream_manager.release_port(t)
PortRelease(t) ==
    LET r == release_port(active_ports, t)
    IN  /\ active_ports' = r.ports
        /\ portCall' = [op |-> "release", thread |-> t, port |-> 0,
                        had |-> is_active(active_ports, t), raised |-> r.raised]
        /\ relSeen' = IF is_active(active_ports, t) THEN relSeen \cup {t} ELSE relSeen
        /\ UNCHANGED firstPort
    /\ UNCHANGED notPort


(***************************************************************************)
(* tools.py: session registry, browser tools, idle reaper                  *)
(***************************************************************************)
SessThreads == {"t1", "t2"}       \* the threads that use browser tools
BROWSER_TIMEOUT_SECONDS == 300
\* the instants at which something happens: the start, the timeout after it (an
\* idle time of exactly the timeout is not yet idle), and one second later
ClockValues == {0, BROWSER_TIMEOUT_SECONDS, BROWSER_TIMEOUT_SECONDS + 1}
\* how the external agent-browser process ends
Outcomes == {"exit0", "nonzero", "timeout", "spawn_error"}

\* a plausible slip: the timeout is reported without its message
run_result_no_timeout_error(outcome) ==
    CASE outcome = "exit0"       -> [success |-> TRUE,  output |-> "stdout", error |-> None]
      [] outcome = "nonzero"     -> [success |-> FALSE, output |-> "stdout", error |-> Some("stderr")]
      [] outcome = "timeout"     -> [success |-> FALSE, output |-> "", error |-> None]
      [] outcome = "spawn_error" -> [success |-> FALSE, output |-> "", error |-> Some("str(e)")]

\* lines 201-226: what _run_browser_command returns for each end of the process
run_result(outcome) ==
    CASE outcome = "exit0"       -> [success |-> TRUE,  output |-> "stdout", error |-> None]
      [] outcome = "nonzero"     -> [success |-> FALSE, output |-> "stdout", error |-> Some("stderr")]
      [] outcome = "timeout"     -> [success |-> FALSE, output |-> "", error |-> Some("Command timed out after 30 seconds")]
      [] outcome = "spawn_error" -> [success |-> FALSE, output |-> "", error |-> Some("str(e)")]

NoResult == [success |-> FALSE, output |-> "", error |-> None]

\* position of the thread's record in the registry, 0 when it has none
SessionIndex(sessions, thread_id) ==
    LET hits == {i \in 1..Len(sessions) : sessions[i].sessionId = thread_id}
    IN  IF hits = {} THEN 0 ELSE CHOOSE i \in hits : TRUE

HasSession(sessions, thread_id) == SessionIndex(sessions, thread_id) # 0
SessionOf(sessions, thread_id) == sessions[SessionIndex(sessions, thread_id)]

\* session.get("isActive", False) of the thread's record, False when it has none
IsActive(sessions, thread_id) ==
    HasSession(sessions, thread_id) /\ SessionOf(sessions, thread_id).isActive

\* a plausible slip: the registry is rebound to a dict holding the one record
put_session_rebinds(sessions, thread_id, session_data) == <<session_data>>

\* _browser_sessions[thread_id] = session_data: in place for a known key, at the
\* end for a new one
PutSession(sessions, thread_id, session_data) ==
    IF HasSession(sessions, thread_id)
    THEN [sessions EXCEPT ![SessionIndex(sessions, thread_id)] = session_data]
    ELSE Append(sessions, session_data)

\* a plausible slip: when the timestamp is not refreshed the existing record is
\* kept whole, isActive included
update_browser_session_keeps_record(sessions, ap, thread_id, active, update_last_activity, clock) ==
    LET url == IF active THEN get_stream_url(ap, thread_id)
                            ELSE [ports |-> ap, ret |-> None]
        fresh == [sessionId |-> thread_id,
                  streamUrl |-> IF active THEN Some(url.ret) ELSE None,
                  isActive |-> active,
                  lastActivity |-> IF update_last_activity /\ active THEN Some(clock) ELSE None]
    IN  [sessions |-> IF ~(update_last_activity /\ active) /\ HasSession(sessions, thread_id)
                      THEN sessions
                      ELSE PutSession(sessions, thread_id, fresh),
         ports |-> url.ports]

\* lines 229-251
update_browser_session(sessions, ap, thread_id, active, update_last_activity, clock) ==
    LET url == IF active THEN get_stream_url(ap, thread_id)
                            ELSE [ports |-> ap, ret |-> None]
        last == IF update_last_activity /\ active
                THEN Some(clock)
                ELSE IF HasSession(sessions, thread_id)
                     THEN SessionOf(sessions, thread_id).lastActivity
                     ELSE None
        session_data == [sessionId |-> thread_id,
                         streamUrl |-> IF active THEN Some(url.ret) ELSE None,
                         isActive |-> active,
                         lastActivity |-> last]
    IN  [sessions |-> PutSession(sessions, thread_id, session_data), ports |-> url.ports]

\* lines 373-376
update_activity(sessions, thread_id, clock) ==
    IF IsActive(sessions, thread_id)
    THEN [sessions EXCEPT ![SessionIndex(sessions, thread_id)].lastActivity = Some(clock)]
    ELSE sessions

\* lines 288-295: the test that puts a session on inactive_threads
IsIdle(session, clock) ==
    /\ session.isActive
    /\ session.lastActivity # None
    /\ clock - session.lastActivity[1] > BROWSER_TIMEOUT_SECONDS

\* lines 283-296: inactive_threads, in the order of the registry
RECURSIVE inactive_threads(_, _)
inactive_threads(sessions, clock) ==
    IF sessions = <<>> THEN <<>>
    ELSE IF IsIdle(Head(sessions), clock)
         THEN <<Head(sessions).sessionId>> \o inactive_threads(Tail(sessions), clock)
         ELSE inactive_threads(Tail(sessions), clock)

\* a plausible slip: browser_close returns right after a failed close command
close_returns_on_failure(result) == IF result.success THEN "close_release" ELSE "idle"

\* lines 689-695: where browser_close goes after the close command, whatever it
\* returned
browser_close_after_run(result) == "close_release"

\* a plausible slip: a failed close command ends the reaper's tick
reaper_aborts_on_failure(result) == IF result.success THEN "release" ELSE "sleep"

\* lines 301-303: where the reaper goes after the close command, whatever it
\* returned
reaper_after_run(result) == "release"

\* the tools that call _update_activity before their command, and those that do not
ActingTools == {"click", "fill", "type", "press_key", "scroll", "back", "forward", "reload"}
ReadingTools == {"snapshot", "screenshot", "get_info", "console"}

\* what each tool puts in front of result['error'] when its command failed
FailedText(tool) ==
    CASE tool = "click"      -> "Failed to click {ref}: "
      [] tool = "fill"       -> "Failed to fill {ref}: "
      [] tool = "type"       -> "Failed to type into {ref}: "
      [] tool = "press_key"  -> "Failed to press {key}: "
      [] tool = "scroll"     -> "Failed to scroll: "
      [] tool = "back"       -> "Failed to navigate back: "
      [] tool = "forward"    -> "Failed to navigate forward: "
      [] tool = "reload"     -> "Failed to reload page: "
      [] tool = "snapshot"   -> "Failed to get snapshot: "
      [] tool = "screenshot" -> "Failed to take screenshot: "
      [] tool = "get_info"   -> "Failed to get {info_type}: "
      [] tool = "console"    -> "Failed to get console logs: "

\* the string a tool returns for the result of its command
tool_returns(tool, result) ==
    IF result.success THEN <<"done", result.output>>
    ELSE <<FailedText(tool), result.error>>

NoToolCall == [tool |-> "none", thread |-> "", outcome |-> "exit0", result |-> NoResult,
               ret |-> <<>>, at |-> 0]

InitToolVars == toolCall = NoToolCall

InitSessVars ==
    /\ browser_sessions = <<>>
    /\ now = 0
    /\ tpc = [t \in SessThreads |-> "idle"]
    /\ tres = [t \in SessThreads |-> NoResult]
    /\ wasClosed = [t \in SessThreads |-> FALSE]
    /\ closedDone = [t \in SessThreads |-> FALSE]
    /\ rpc = "off"
    /\ rlist = <<>>
    /\ rres = NoResult

\* time passes
Tick ==
    /\ \E later \in ClockValues :
         /\ later > now
         /\ now' = later
    /\ UNCHANGED <<browser_sessions, active_ports, tpc, tres, wasClosed, closedDone, rpc, rlist, rres>>
    /\ UNCHANGED notSess

\* browser_navigate, lines 397-400 and 196-199: the reaper is started if it is not
\* running, and the stream port is allocated for the open command. The start is
\* one step here; SpecStart takes _start_cleanup_thread apart.
NavStart(t) ==
    /\ tpc[t] = "idle"
    /\ rpc' = IF rpc = "off" THEN "scan" ELSE rpc
    /\ active_ports' = get_port_for_thread(active_ports, t).ports
    /\ tpc' = [tpc EXCEPT ![t] = "nav_run"]
    /\ closedDone' = [closedDone EXCEPT ![t] = FALSE]
    /\ UNCHANGED <<browser_sessions, now, tres, wasClosed, rlist, rres>>
    /\ UNCHANGED notSess

\* browser_navigate, lines 201-226 and 409, 437-438: the open command ends; a
\* failure is returned as "Failed to navigate"
NavRun(t) ==
    /\ tpc[t] = "nav_run"
    /\ \E outcome \in Outcomes :
         LET result == run_result(outcome)
         IN  IF result.success
             THEN /\ tpc' = [tpc EXCEPT ![t] = "nav_url"]
                  /\ tres' = [tres EXCEPT ![t] = result]
             ELSE /\ tpc' = [tpc EXCEPT ![t] = "idle"]
                  /\ tres' = [tres EXCEPT ![t] = NoResult]
    /\ UNCHANGED <<browser_sessions, active_ports, now, wasClosed, closedDone, rpc, rlist, rres>>
    /\ UNCHANGED notSess

\* browser_navigate, line 409: the open command ended with exit code 0
NavRunSucceeds(t) ==
    /\ NavRun(t)
    /\ tpc'[t] = "nav_url"

\* browser_navigate, lines 410-414: the stream url and port are read, then the
\* stream server is waited for
NavUrl(t) ==
    /\ tpc[t] = "nav_url"
    /\ active_ports' = get_port_for_thread(get_stream_url(active_ports, t).ports, t).ports
    /\ tpc' = [tpc EXCEPT ![t] = "nav_mark"]
    /\ UNCHANGED <<browser_sessions, now, tres, wasClosed, closedDone, rpc, rlist, rres>>
    /\ UNCHANGED notSess

\* browser_navigate, lines 420-436: the session is marked active
NavMark(t) ==
    /\ tpc[t] = "nav_mark"
    /\ LET u == update_browser_session(browser_sessions, active_ports, t, TRUE, TRUE, now)
       IN  /\ browser_sessions' = u.sessions
           /\ active_ports' = u.ports
    /\ tpc' = [tpc EXCEPT ![t] = "idle"]
    /\ tres' = [tres EXCEPT ![t] = NoResult]
    /\ UNCHANGED <<now, wasClosed, closedDone, rpc, rlist, rres>>
    /\ UNCHANGED notSess

\* browser_click and the other tools that start with _update_activity
\* (lines 504-505): the timestamp of an active session is refreshed, the command runs
Click(t) ==
    /\ tpc[t] = "idle"
    /\ browser_sessions' = update_activity(browser_sessions, t, now)
    /\ UNCHANGED <<active_ports, now, tpc, tres, wasClosed, closedDone, rpc, rlist, rres>>
    /\ UNCHANGED notSess

\* browser_click, browser_fill, browser_type, browser_press_key, browser_scroll,
\* browser_back, browser_forward, browser_reload: _update_activity, then the
\* command, then the string for its result
ActingTool(t, tool) ==
    /\ tpc[t] = "idle"
    /\ browser_sessions' = update_activity(browser_sessions, t, now)
    /\ \E outcome \in Outcomes :
         toolCall' = [tool |-> tool, thread |-> t, outcome |-> outcome,
                      result |-> run_result(outcome),
                      ret |-> tool_returns(tool, run_result(outcome)), at |-> now]
    /\ UNCHANGED <<active_ports, now, tpc, tres, wasClosed, closedDone, rpc, rlist, rres>>
    /\ UNCHANGED notTool

\* browser_snapshot, browser_screenshot, browser_get_info, browser_console: the
\* command, then the string for its result
ReadingTool(t, tool) ==
    /\ tpc[t] = "idle"
    /\ \E outcome \in Outcomes :
         toolCall' = [tool |-> tool, thread |-> t, outcome |-> outcome,
                      result |-> run_result(outcome),
                      ret |-> tool_returns(tool, run_result(outcome)), at |-> now]
    /\ UNCHANGED sessVars
    /\ UNCHANGED notTool

\* browser_close, line 689: the close command ends
CloseRun(t) ==
    /\ tpc[t] = "idle"
    /\ \E outcome \in Outcomes :
         /\ tres' = [tres EXCEPT ![t] = run_result(outcome)]
         /\ tpc' = [tpc EXCEPT ![t] = browser_close_after_run(run_result(outcome))]
         /\ closedDone' = [closedDone EXCEPT ![t] =
                              browser_close_after_run(run_result(outcome)) = "idle"]
    /\ wasClosed' = [wasClosed EXCEPT ![t] = ~IsActive(browser_sessions, t)]
    /\ UNCHANGED <<browser_sessions, active_ports, now, rpc, rlist, rres>>
    /\ UNCHANGED notSess

\* browser_close, line 692
CloseRelease(t) ==
    /\ tpc[t] = "close_release"
    /\ active_ports' = release_port(active_ports, t).ports
    /\ tpc' = [tpc EXCEPT ![t] = "close_mark"]
    /\ UNCHANGED <<browser_sessions, now, tres, wasClosed, closedDone, rpc, rlist, rres>>
    /\ UNCHANGED notSess

\* browser_close, lines 695-700: the session is marked inactive and the result of
\* the close command decides what is returned
CloseMark(t) ==
    /\ tpc[t] = "close_mark"
    /\ LET u == update_browser_session(browser_sessions, active_ports, t, FALSE, TRUE, now)
       IN  /\ browser_sessions' = u.sessions
           /\ active_ports' = u.ports
    /\ closedDone' = [closedDone EXCEPT ![t] = TRUE]
    /\ tpc' = [tpc EXCEPT ![t] = "idle"]
    /\ tres' = [tres EXCEPT ![t] = NoResult]
    /\ wasClosed' = [wasClosed EXCEPT ![t] = FALSE]
    /\ UNCHANGED <<now, rpc, rlist, rres>>
    /\ UNCHANGED notSess

\* reaper, lines 283-296: one scan of the registry
ReaperScan ==
    /\ rpc = "scan"
    /\ rlist' = inactive_threads(browser_sessions, now)
    /\ rpc' = IF inactive_threads(browser_sessions, now) = <<>> THEN "sleep" ELSE "close"
    /\ UNCHANGED <<browser_sessions, active_ports, now, tpc, tres, wasClosed, closedDone, rres>>
    /\ UNCHANGED notSess

\* the reaper is done with the head of inactive_threads
ReaperNext(rest) == IF rest = <<>> THEN "sleep" ELSE "close"

\* reaper, line 301: the close command for the next thread of the list ends
ReaperClose ==
    /\ rpc = "close"
    /\ \E outcome \in Outcomes :
         /\ rres' = run_result(outcome)
         /\ rpc' = reaper_after_run(run_result(outcome))
    /\ UNCHANGED <<browser_sessions, active_ports, now, tpc, tres, wasClosed, closedDone, rlist>>
    /\ UNCHANGED notSess

\* reaper, line 302
ReaperRelease ==
    /\ rpc = "release"
    /\ active_ports' = release_port(active_ports, Head(rlist)).ports
    /\ rpc' = "mark"
    /\ UNCHANGED <<browser_sessions, now, tpc, tres, wasClosed, closedDone, rlist, rres>>
    /\ UNCHANGED notSess

\* reaper, lines 303-308
ReaperMark ==
    /\ rpc = "mark"
    /\ LET u == update_browser_session(browser_sessions, active_ports, Head(rlist), FALSE, FALSE, now)
       IN  /\ browser_sessions' = u.sessions
           /\ active_ports' = u.ports
    /\ rlist' = Tail(rlist)
    /\ rpc' = ReaperNext(Tail(rlist))
    /\ rres' = NoResult
    /\ UNCHANGED <<now, tpc, tres, wasClosed, closedDone>>
    /\ UNCHANGED notSess

\* reaper, line 311: the sleep ends and the loop test passes
ReaperSleep ==
    /\ rpc = "sleep"
    /\ rpc' = "scan"
    /\ UNCHANGED <<browser_sessions, active_ports, now, tpc, tres, wasClosed, closedDone, rlist, rres>>
    /\ UNCHANGED notSess

(***************************************************************************)
(* tools.py: starting and stopping the reaper thread                       *)
(***************************************************************************)
MaxReapers == 3                   \* Thread objects created in one run

\* threading.Thread.is_alive(): from start() until run() returns
thread_is_alive(ts, h) == ts[h] \in {"entry", "loop"}

InitStartVars ==
    /\ cleanup_thread = 0
    /\ cleanup_running = FALSE
    /\ nthreads = 0
    /\ tstate = [h \in 1..(MaxReapers + 1) |-> "none"]
    /\ cpc = [c \in SessThreads |-> "idle"]
    /\ startRaised = FALSE
    /\ startReturned = FALSE

\* _start_cleanup_thread, line 324: the test, made by the browser_navigate of thread c
StartTest(c) ==
    /\ cpc[c] = "idle"
    /\ cpc' = [cpc EXCEPT ![c] =
                 IF cleanup_thread = 0 \/ ~thread_is_alive(tstate, cleanup_thread)
                 THEN "create" ELSE "idle"]
    /\ startReturned' = IF cleanup_thread = 0 \/ ~thread_is_alive(tstate, cleanup_thread)
                        THEN startReturned ELSE TRUE
    /\ UNCHANGED <<cleanup_thread, cleanup_running, nthreads, tstate, startRaised>>
    /\ UNCHANGED notStart

\* _start_cleanup_thread, line 325: a Thread object is created and bound to the global
StartCreate(c) ==
    /\ cpc[c] = "create"
    /\ nthreads < MaxReapers
    /\ nthreads' = nthreads + 1
    /\ cleanup_thread' = nthreads + 1
    /\ tstate' = [tstate EXCEPT ![nthreads + 1] = "new"]
    /\ cpc' = [cpc EXCEPT ![c] = "start"]
    /\ UNCHANGED <<cleanup_running, startRaised, startReturned>>
    /\ UNCHANGED notStart

\* _start_cleanup_thread, line 326: start() of the Thread the global is bound to
\* now; a Thread can be started once
StartStart(c) ==
    /\ cpc[c] = "start"
    /\ IF tstate[cleanup_thread] = "new"
       THEN /\ tstate' = [tstate EXCEPT ![cleanup_thread] = "entry"]
            /\ startReturned' = TRUE
            /\ UNCHANGED startRaised
       ELSE /\ startRaised' = TRUE
            /\ UNCHANGED <<tstate, startReturned>>
    /\ cpc' = [cpc EXCEPT ![c] = "idle"]
    /\ UNCHANGED <<cleanup_thread, cleanup_running, nthreads>>
    /\ UNCHANGED notStart

\* _cleanup_inactive_sessions, lines 276-281: the flag is set and the loop entered
LoopEntry(h) ==
    /\ tstate[h] = "entry"
    /\ cleanup_running' = TRUE
    /\ tstate' = [tstate EXCEPT ![h] = "loop"]
    /\ UNCHANGED <<cleanup_thread, nthreads, cpc, startRaised, startReturned>>
    /\ UNCHANGED notStart

\* _cleanup_inactive_sessions, lines 281 and 317: the loop test fails
LoopExit(h) ==
    /\ tstate[h] = "loop"
    /\ ~cleanup_running
    /\ tstate' = [tstate EXCEPT ![h] = "exited"]
    /\ UNCHANGED <<cleanup_thread, cleanup_running, nthreads, cpc, startRaised, startReturned>>
    /\ UNCHANGED notStart

\* _stop_cleanup_thread, lines 330-333
StopCleanup ==
    /\ cleanup_running
    /\ cleanup_running' = FALSE
    /\ startReturned' = FALSE
    /\ UNCHANGED <<cleanup_thread, nthreads, tstate, cpc, startRaised>>
    /\ UNCHANGED notStart

(***************************************************************************)
(* human_loop.py and the approval interrupt of bash_tool.py                *)
(***************************************************************************)
MaxRequests == 2                  \* requests created in one run
HumanThreads == {"t1", "t2"}      \* the threads whose loops ask for a human
RequestTypes == {"guidance", "credentials", "confirmation"}
\* what check_human_response puts in front of the response, per request type
ReceivedText(request_type) ==
    CASE request_type = "credentials"  -> "Credentials received: "
      [] request_type = "confirmation" -> "Confirmation response: "
      [] request_type = "guidance"     -> "Guidance received: "
\* how bash_execute classifies its command
CommandClasses == {"blocked", "auto_approved", "needs_approval"}
ApprovalResponses == {"approved", "no"}

\* line 39: f"{thread_id}_{request_type}_{_request_counter}"
request_id_of(thread_id, request_type, counter) == <<thread_id, request_type, counter>>

\* an id no request has: the counter is at least 1 when an id is made
UnknownRequest == request_id_of("t1", "guidance", 0)

\* position of the request with the id in _human_requests, 0 when there is none
RequestIndex(requests, request_id) ==
    LET hits == {i \in 1..Len(requests) : requests[i].id = request_id}
    IN  IF hits = {} THEN 0 ELSE CHOOSE i \in hits : TRUE

\* lines 18-55
create_request(requests, counter, request_type, thread_id) ==
    LET request_id == request_id_of(thread_id, request_type, counter + 1)
        request == [id        |-> request_id,
                    type      |-> request_type,
                    thread_id |-> thread_id,
                    status    |-> "pending",
                    response  |-> None]
        i == RequestIndex(requests, request_id)
    IN  [requests |-> IF i = 0 THEN Append(requests, request)
                               ELSE [requests EXCEPT ![i] = request],
         counter  |-> counter + 1,
         ret      |-> request]

\* lines 58-70
get_pending_requests(requests, thread_id) ==
    SelectSeq(requests, LAMBDA req : req.thread_id = thread_id /\ req.status = "pending")

\* lines 73-82
get_request(requests, request_id) ==
    IF RequestIndex(requests, request_id) = 0 THEN None
    ELSE Some(requests[RequestIndex(requests, request_id)])

\* a plausible slip: the status of the request is not looked at
submit_response_any_status(requests, request_id, response) ==
    LET i == RequestIndex(requests, request_id)
    IN  IF i = 0
        THEN [requests |-> requests, ret |-> FALSE]
        ELSE [requests |-> [requests EXCEPT ![i].response = Some(response),
                                            ![i].status = "completed"],
              ret |-> TRUE]

\* lines 85-106
submit_response(requests, request_id, response) ==
    LET i == RequestIndex(requests, request_id)
    IN  IF i = 0
        THEN [requests |-> requests, ret |-> FALSE]
        ELSE IF requests[i].status # "pending"
             THEN [requests |-> requests, ret |-> FALSE]
             ELSE [requests |-> [requests EXCEPT ![i].response = Some(response),
                                                 ![i].status = "completed"],
                   ret |-> TRUE]

\* a plausible slip: the thread of the request is not compared with the caller's
check_human_response_any_thread(requests, thread_id, request_id) ==
    LET request == get_request(requests, request_id)
    IN  IF request = None
        THEN [text |-> "not found", value |-> None]
        ELSE IF request[1].status = "pending"
        THEN [text |-> "is still pending. Human has not responded yet.", value |-> None]
        ELSE IF request[1].status = "completed"
        THEN [text |-> ReceivedText(request[1].type), value |-> request[1].response]
        ELSE [text |-> "has status", value |-> None]

\* lines 228-273: the returned text, and the response it carries (None when it
\* carries none)
check_human_response(requests, thread_id, request_id) ==
    LET request == get_request(requests, request_id)
    IN  IF request = None
        THEN [text |-> "not found", value |-> None]
        ELSE IF request[1].thread_id # thread_id
        THEN [text |-> "belongs to a different thread", value |-> None]
        ELSE IF request[1].status = "pending"
        THEN [text |-> "is still pending. Human has not responded yet.", value |-> None]
        ELSE IF request[1].status = "completed"
        THEN [text |-> ReceivedText(request[1].type), value |-> request[1].response]
        ELSE [text |-> "has status", value |-> None]

NoHumanCall ==
    [op |-> "none", thread |-> "", id |-> UnknownRequest, value |-> None, ok |-> FALSE,
     text |-> "", repeat |-> FALSE]

\* status of the request with the id, "absent" when there is none
RequestStatus(requests, request_id) ==
    IF RequestIndex(requests, request_id) = 0 THEN "absent"
    ELSE requests[RequestIndex(requests, request_id)].status

InitHumanVars ==
    /\ human_requests = <<>>
    /\ request_counter = 0
    /\ loop = [t \in HumanThreads |-> "running"]
    /\ hlCall = NoHumanCall

\* one of the three request tools, called by the loop of thread t: the request is
\* created and a text is returned to the loop
RequestTool(t, request_type) ==
    /\ loop[t] = "running"
    /\ request_counter < MaxRequests
    /\ LET r == create_request(human_requests, request_counter, request_type, t)
       IN  /\ human_requests' = r.requests
           /\ request_counter' = r.counter
           /\ hlCall' = [NoHumanCall EXCEPT !.op = "request", !.thread = t, !.id = r.ret.id,
                                            !.ok = TRUE]
    /\ UNCHANGED loop
    /\ UNCHANGED notHuman

\* lines 109-146
RequestHumanGuidance(t) == RequestTool(t, "guidance")

\* lines 149-184
RequestCredentials(t) == RequestTool(t, "credentials")

\* lines 187-225
RequestConfirmation(t) == RequestTool(t, "confirmation")

\* the ids a caller can name: those made so far and one that was never made
KnownRequestIds == {human_requests[i].id : i \in 1..Len(human_requests)}

\* the human answers: submit_response(request_id, response)
SubmitResponse ==
    /\ \E request_id \in KnownRequestIds \cup {UnknownRequest}, response \in Values :
         LET r == submit_response(human_requests, request_id, response)
         IN  /\ human_requests' = r.requests
             /\ hlCall' = [NoHumanCall EXCEPT !.op = "submit", !.id = request_id,
                                              !.value = Some(response), !.ok = r.ret]
    /\ UNCHANGED <<request_counter, loop>>
    /\ UNCHANGED notHuman

\* the loop of thread t calls check_human_response(t, request_id); repeat says
\* that the call before it was a check of the same request that returned its
\* response
CheckHumanResponse(t) ==
    /\ loop[t] = "running"
    /\ \E request_id \in KnownRequestIds \cup {UnknownRequest} :
         LET r == check_human_response(human_requests, t, request_id)
         IN  /\ hlCall' = [NoHumanCall EXCEPT !.op = "check", !.thread = t, !.id = request_id,
                                              !.value = r.value, !.ok = (r.value # None),
                                              !.text = r.text,
                                              !.repeat = /\ hlCall.op = "check"
                                                         /\ hlCall.ok
                                                         /\ hlCall.id = request_id]
    /\ UNCHANGED <<human_requests, request_counter, loop>>
    /\ UNCHANGED notHuman

\* the loop of thread t goes on after a tool returned: the next model turn
ModelTurn(t) ==
    /\ loop[t] = "running"
    /\ hlCall' = [NoHumanCall EXCEPT !.op = "model_turn", !.thread = t]
    /\ UNCHANGED <<human_requests, request_counter, loop>>
    /\ UNCHANGED notHuman

\* bash_tool.py lines 158-181: a blocked command is refused, an auto-approved one
\* runs, any other reaches interrupt(), which does not return until the graph is
\* resumed
BashExecute(t) ==
    /\ loop[t] = "running"
    /\ \E class \in CommandClasses :
         /\ loop' = [loop EXCEPT ![t] = IF class = "needs_approval" THEN "interrupted" ELSE "running"]
         /\ hlCall' = [NoHumanCall EXCEPT !.op = "bash_execute", !.thread = t,
                                          !.text = CASE class = "blocked" -> "[BLOCKED]"
                                                     [] class = "auto_approved" -> "output"
                                                     [] class = "needs_approval" -> "interrupt"]
    /\ UNCHANGED <<human_requests, request_counter>>
    /\ UNCHANGED notHuman

\* bash_tool.py lines 171-181: the graph is resumed with the human's answer, which
\* interrupt() returns
BashResume(t) ==
    /\ loop[t] = "interrupted"
    /\ \E response \in ApprovalResponses :
         hlCall' = [NoHumanCall EXCEPT !.op = "bash_resume", !.thread = t,
                                       !.value = Some(response),
                                       !.ok = (response = "approved"),
                                       !.text = IF response # "approved" THEN "[REJECTED]" ELSE "output"]
    /\ loop' = [loop EXCEPT ![t] = "running"]
    /\ UNCHANGED <<human_requests, request_counter>>
    /\ UNCHANGED notHuman

(***************************************************************************)
(* middleware/presented_files.py and present_file.py                       *)
(***************************************************************************)
MaxListLen == 4                   \* length of the presented_files list in the reducer runs
MaxFiles == 4                     \* present_file calls in one run
FilePaths == {"artifacts/report.pdf", "artifacts/notes.md"}

\* an Optional[List[dict]]: Python's None, or a list
NoneList == [isNone |-> TRUE, items |-> <<>>]
ListOf(items) == [isNone |-> FALSE, items |-> items]

\* present_file.py lines 89-98: the entry of a presented file
presented_file(id, file_path, tool_call_id) ==
    [id |-> id, file_path |-> file_path, tool_call_id |-> tool_call_id]

\* a plausible slip: the update replaces the list
presented_files_reducer_replaces(left, right) ==
    IF left.isNone
    THEN IF ~right.isNone THEN right.items ELSE <<>>
    ELSE IF right.isNone THEN left.items
    ELSE right.items

\* a plausible slip: entries the list already holds are not appended again
presented_files_reducer_dedups(left, right) ==
    IF left.isNone
    THEN IF ~right.isNone THEN right.items ELSE <<>>
    ELSE IF right.isNone THEN left.items
    ELSE left.items \o SelectSeq(right.items,
                                 LAMBDA x : \A i \in 1..Len(left.items) : left.items[i] # x)

\* presented_files.py lines 7-24
presented_files_reducer(left, right) ==
    IF left.isNone
    THEN IF ~right.isNone THEN right.items ELSE <<>>
    ELSE IF right.isNone THEN left.items
    ELSE left.items \o right.items

\* a plausible slip: a missing file is presented like an existing one
present_file_presents_missing(file_path, exists, tool_call_id, uuid) ==
    [messages |-> <<"Presented file">>,
     presented_files |-> ListOf(<<presented_file(uuid, file_path, tool_call_id)>>)]

\* present_file.py lines 42-110: the update of the returned Command; without the
\* file it has no presented_files key
present_file_tool(file_path, exists, tool_call_id, uuid) ==
    IF ~exists
    THEN [messages |-> <<"Error: File not found at">>, presented_files |-> NoneList]
    ELSE [messages |-> <<"Presented file">>,
          presented_files |-> ListOf(<<presented_file(uuid, file_path, tool_call_id)>>)]

NoUpdate == [messages |-> <<>>, presented_files |-> NoneList]
NoMerge == [op |-> "none", base |-> NoneList, left |-> NoneList, right |-> NoneList,
            out |-> <<>>, again |-> FALSE]

\* the partial updates the reducer runs are given: None, or a list of at most two
\* entries, the same entry twice included
MergeEntries == {presented_file(1, "artifacts/report.pdf", 1), presented_file(2, "artifacts/notes.md", 2)}
Partials ==
    {NoneList, ListOf(<<>>)}
      \cup {ListOf(<<x>>) : x \in MergeEntries}
      \cup {ListOf(<<x, y>>) : x \in MergeEntries, y \in MergeEntries}

InitFileVars ==
    /\ presented_files = NoneList
    /\ fileUpdate = NoUpdate
    /\ fileUuid = 0
    /\ fileCalls = <<>>
    /\ lastMerge = NoMerge

\* a call of present_file whose Command is applied to the state: the reducer runs
\* when the update has the presented_files key
PresentFile(file_path) ==
    /\ Len(fileCalls) < MaxFiles
    /\ \E exists \in BOOLEAN :
         LET tool_call_id == Len(fileCalls) + 1
             update == present_file_tool(file_path, exists, tool_call_id, fileUuid + 1)
         IN  /\ fileUpdate' = update
             /\ fileUuid' = IF exists THEN fileUuid + 1 ELSE fileUuid
             /\ fileCalls' = Append(fileCalls, [file_path |-> file_path, exists |-> exists,
                                                tool_call_id |-> tool_call_id])
             /\ IF update.presented_files.isNone
                THEN UNCHANGED <<presented_files, lastMerge>>
                ELSE LET out == presented_files_reducer(presented_files, update.presented_files)
                     IN  /\ presented_files' = ListOf(out)
                         /\ lastMerge' = [op |-> "merge", base |-> presented_files,
                                          left |-> presented_files,
                                          right |-> update.presented_files,
                                          out |-> out, again |-> FALSE]
    /\ UNCHANGED notFile

\* the reducer is applied to the channel and a partial update
Merge ==
    /\ \E partial \in Partials :
         LET out == presented_files_reducer(presented_files, partial)
         IN  /\ Len(out) <= MaxListLen
             /\ presented_files' = ListOf(out)
             /\ lastMerge' = [op |-> "merge", base |-> presented_files, left |-> presented_files,
                              right |-> partial, out |-> out, again |-> FALSE]
    /\ UNCHANGED <<fileUpdate, fileUuid, fileCalls>>
    /\ UNCHANGED notFile

\* the partial update applied last is delivered, and so applied, a second time
Redeliver ==
    /\ lastMerge.op = "merge"
    /\ ~lastMerge.again
    /\ LET out == presented_files_reducer(presented_files, lastMerge.right)
       IN  /\ Len(out) <= MaxListLen
           /\ presented_files' = ListOf(out)
           /\ lastMerge' = [lastMerge EXCEPT !.left = presented_files, !.out = out,
                                             !.again = TRUE]
    /\ UNCHANGED <<fileUpdate, fileUuid, fileCalls>>
    /\ UNCHANGED notFile

(***************************************************************************)
(* bash_tool.py: bash_execute                                              *)
(***************************************************************************)
MaxCommands == 3                  \* bash_execute calls in one run

\* commands the agent passes; the values of strip, of the two pattern checks and of
\* _make_paths_relative on them are those the source's code computes
Commands ==
    {"ls /artifacts", "echo sudo", "sudo ls", "curl https://api.example.com/data",
     "cp /artifacts/a /memory/b", "  pwd  "}

\* line 160: command.strip()
strip(command) == IF command = "  pwd  " THEN "pwd" ELSE command

\* lines 122-125 with BLOCKED_PATTERNS (re.search): r"sudo" is found in two of them
is_command_blocked(command) == command \in {"echo sudo", "sudo ls"}

\* lines 116-119 with AUTO_APPROVED_PATTERNS (re.match): ^ls(\s+...)?$, ^echo\s+, ^pwd$
is_command_auto_approved(command) == command \in {"ls /artifacts", "echo sudo", "pwd"}

\* lines 60-79: the leading slash of /artifacts, /memory, ... is removed
make_paths_relative(command) ==
    CASE command = "ls /artifacts" -> "ls artifacts"
      [] command = "cp /artifacts/a /memory/b" -> "cp artifacts/a memory/b"
      [] OTHER -> command

\* what the responder may answer the approval interrupt with
BashResponses == {"approved", "Approved", "yes", "no"}
\* lines 192-216: what the run of the command comes to
RunOutcomes == {"output", "[Exit code]", "[TIMEOUT]", "[ERROR]"}

\* a plausible slip: the approval is asked for before the blocked check
bash_execute_approval_first(command, resumed, response, outcome) ==
    LET c == strip(command)
    IN  IF ~is_command_auto_approved(c) /\ ~resumed
        THEN [kind |-> "interrupt", result |-> "GraphInterrupt", ran |-> None]
        ELSE IF ~is_command_auto_approved(c) /\ response # "approved"
        THEN [kind |-> "rejected", result |-> "[REJECTED]", ran |-> None]
        ELSE IF is_command_blocked(c)
        THEN [kind |-> "blocked", result |-> "[BLOCKED]", ran |-> None]
        ELSE [kind |-> "run", result |-> outcome, ran |-> Some(make_paths_relative(c))]

\* lines 160-216, one run of the function body. interrupt() at line 171 raises out
\* of the run when the graph was not resumed and returns the response when it was
bash_execute(command, resumed, response, outcome) ==
    LET c == strip(command)
    IN  IF is_command_blocked(c)
        THEN [kind |-> "blocked", result |-> "[BLOCKED]", ran |-> None]
        ELSE IF ~is_command_auto_approved(c) /\ ~resumed
        THEN [kind |-> "interrupt", result |-> "GraphInterrupt", ran |-> None]
        ELSE IF ~is_command_auto_approved(c) /\ response # "approved"
        THEN [kind |-> "rejected", result |-> "[REJECTED]", ran |-> None]
        ELSE [kind |-> "run", result |-> outcome, ran |-> Some(make_paths_relative(c))]

InitBashVars ==
    /\ bashPending = None
    /\ bashLog = <<>>
    /\ bashResult = ""

BashCalls == Cardinality({i \in 1..Len(bashLog) : ~bashLog[i].resumed})

\* the agent calls bash_execute
BashCall ==
    /\ bashPending = None
    /\ BashCalls < MaxCommands
    /\ \E command \in Commands, outcome \in RunOutcomes :
         LET r == bash_execute(command, FALSE, "", outcome)
         IN  /\ (r.kind # "run") => outcome = "output"
             /\ bashLog' = Append(bashLog, [command |-> command, resumed |-> FALSE,
                                            response |-> None, kind |-> r.kind,
                                            result |-> r.result, ran |-> r.ran])
             /\ bashPending' = IF r.kind = "interrupt" THEN Some(command) ELSE None
             /\ bashResult' = IF r.kind = "interrupt" THEN bashResult ELSE r.result
    /\ UNCHANGED notBash

\* the graph is resumed with the human's answer: the tool's body runs again from its
\* first line and interrupt() returns the answer
BashResumed ==
    /\ bashPending # None
    /\ \E response \in BashResponses, outcome \in RunOutcomes :
         LET r == bash_execute(bashPending[1], TRUE, response, outcome)
         IN  /\ (r.kind # "run") => outcome = "output"
             /\ bashLog' = Append(bashLog, [command |-> bashPending[1], resumed |-> TRUE,
                                            response |-> Some(response), kind |-> r.kind,
                                            result |-> r.result, ran |-> r.ran])
             /\ bashPending' = None
             /\ bashResult' = r.result
    /\ UNCHANGED notBash

(***************************************************************************)
(* tools.py: _cleanup_stale_daemons                                        *)
(***************************************************************************)
MaxScans == 3                     \* calls of _cleanup_stale_daemons that take the lock
DaemonCallers == {"nav1", "nav2"}
DAEMON_CLEANUP_INTERVAL_SECONDS == 60
DaemonTimes == {0, 59, 60, 119, 120}

\* how the try block of lines 108-163 ends: no excess daemons, excess daemons
\* killed, a kill that raised (caught at line 156), pgrep or ps timing out, pgrep
\* missing, any other exception
ScanOutcomes == {"clean", "killed", "kill_failed", "timeout", "not_found", "error"}
ScanCompleted == {"clean", "killed", "kill_failed"}

\* lines 103-106: the call returns without scanning
rate_limited(force, last, t) ==
    /\ ~force
    /\ last # None
    /\ t - last[1] < DAEMON_CLEANUP_INTERVAL_SECONDS

InitDaemonVars ==
    /\ last_daemon_cleanup = None
    /\ daemon_cleanup_lock = None
    /\ dnow = 0
    /\ dpc = [c \in DaemonCallers |-> "idle"]
    /\ dforce = [c \in DaemonCallers |-> FALSE]
    /\ scanLog = <<>>

\* the clock moves on
DaemonTick ==
    /\ \E t \in DaemonTimes : t > dnow /\ dnow' = t
    /\ UNCHANGED <<last_daemon_cleanup, daemon_cleanup_lock, dpc, dforce, scanLog>>
    /\ UNCHANGED notDaemon

\* line 88: a caller enters _cleanup_stale_daemons and waits for the lock
DaemonCall(c) ==
    /\ dpc[c] = "idle"
    /\ Len(scanLog) + Cardinality({d \in DaemonCallers : dpc[d] = "waiting"}) < MaxScans
    /\ \E force \in BOOLEAN : dforce' = [dforce EXCEPT ![c] = force]
    /\ dpc' = [dpc EXCEPT ![c] = "waiting"]
    /\ UNCHANGED <<last_daemon_cleanup, daemon_cleanup_lock, dnow, scanLog>>
    /\ UNCHANGED notDaemon

\* lines 101-106: the lock is taken and the interval is tested; a rate-limited
\* call leaves the with block and returns
DaemonEnter(c) ==
    /\ dpc[c] = "waiting"
    /\ daemon_cleanup_lock = None
    /\ IF rate_limited(dforce[c], last_daemon_cleanup, dnow)
       THEN /\ dpc' = [dpc EXCEPT ![c] = "idle"]
            /\ scanLog' = Append(scanLog, [caller |-> c, force |-> dforce[c], at |-> dnow,
                                           scanned |-> FALSE, outcome |-> "skipped",
                                           raised |-> FALSE])
            /\ UNCHANGED daemon_cleanup_lock
       ELSE /\ dpc' = [dpc EXCEPT ![c] = "scanning"]
            /\ scanLog' = Append(scanLog, [caller |-> c, force |-> dforce[c], at |-> dnow,
                                           scanned |-> TRUE, outcome |-> "running",
                                           raised |-> FALSE])
            /\ daemon_cleanup_lock' = Some(c)
    /\ UNCHANGED <<last_daemon_cleanup, dnow, dforce>>
    /\ UNCHANGED notDaemon

\* the entry of the caller's scan in progress
ScanIndex(c) ==
    CHOOSE i \in 1..Len(scanLog) : scanLog[i].caller = c /\ scanLog[i].outcome = "running"

\* lines 108-171: the scan ends; line 163 is reached only when nothing was raised
\* out of the try block; the lock is released and the call returns
DaemonScanEnd(c) ==
    /\ dpc[c] = "scanning"
    /\ \E outcome \in ScanOutcomes :
         /\ last_daemon_cleanup' = IF outcome \in ScanCompleted THEN Some(dnow)
                                    ELSE last_daemon_cleanup
         /\ scanLog' = [scanLog EXCEPT ![ScanIndex(c)].outcome = outcome]
    /\ daemon_cleanup_lock' = None
    /\ dpc' = [dpc EXCEPT ![c] = "idle"]
    /\ UNCHANGED <<dnow, dforce>>
    /\ UNCHANGED notDaemon

(***************************************************************************)
(* storage/config.py and storage/checkpoint.py                             *)
(***************************************************************************)
MaxSavers == 2                    \* savers constructed in one run
DbTypes == {"sqlite", "postgres", "mysql"}
PostgresUris == {"", "postgresql://agent:secret@db:5432/agent"}
GitTops == {None, Some("/repo")}
POSTGRES_POOL_SIZE == 10
AGENT_DIR == ".browser-agent"
UriRequired == "DATABASE_URL environment variable required for postgres DB_TYPE"
SqliteOnly == "get_checkpoint_path only valid for sqlite DB_TYPE"

\* config.py lines 45-59: the git root, or the working directory when git fails
detect_git_root(top) == IF top # None THEN top[1] ELSE "/cwd"

\* config.py lines 38-41: the root after the call, and the directory
root_after(root, top) == IF root = None THEN detect_git_root(top) ELSE root[1]
agent_dir(root) == <<root, AGENT_DIR>>

\* config.py lines 61-69
get_checkpoint_path(db_type, root, top) ==
    IF db_type # "sqlite"
    THEN [raised |-> SqliteOnly, path |-> <<>>]
    ELSE [raised |-> "", path |-> agent_dir(root_after(root, top)) \o <<"checkpoints", "browser_agent.db">>]

\* a plausible slip: the postgres saver is built without the test of the URI
get_checkpoint_saver_unchecked(db_type, uri, root, top) ==
    IF db_type = "postgres"
    THEN [raised |-> "",
          saver |-> Some([class |-> "AsyncPostgresSaver", conn |-> <<uri>>,
                          pool_size |-> POSTGRES_POOL_SIZE])]
    ELSE LET cp == get_checkpoint_path(db_type, root, top)
         IN  IF cp.raised # ""
             THEN [raised |-> cp.raised, saver |-> None]
             ELSE [raised |-> "",
                   saver |-> Some([class |-> "AsyncSqliteSaver", conn |-> cp.path,
                                   pool_size |-> 0])]

\* checkpoint.py lines 23-41: what the call raises or returns
get_checkpoint_saver(db_type, uri, root, top) ==
    IF db_type = "postgres"
    THEN IF uri = ""
         THEN [raised |-> UriRequired, saver |-> None]
         ELSE [raised |-> "",
               saver |-> Some([class |-> "AsyncPostgresSaver", conn |-> <<uri>>,
                               pool_size |-> POSTGRES_POOL_SIZE])]
    ELSE LET cp == get_checkpoint_path(db_type, root, top)
         IN  IF cp.raised # ""
             THEN [raised |-> cp.raised, saver |-> None]
             ELSE [raised |-> "",
                   saver |-> Some([class |-> "AsyncSqliteSaver", conn |-> cp.path,
                                   pool_size |-> 0])]

NoStorageCall == [op |-> "none", raised |-> "", saver |-> None, path |-> <<>>]

\* the configuration is whatever the environment held at import
InitStorageVars ==
    /\ DB_TYPE \in DbTypes
    /\ POSTGRES_URI \in PostgresUris
    /\ PROJECT_ROOT = None
    /\ gitTop \in GitTops
    /\ storageDirs = {}
    /\ ckptCall = NoStorageCall
    /\ saversBuilt = <<>>

\* config.py lines 32-43
GetAgentDir ==
    /\ LET root == root_after(PROJECT_ROOT, gitTop)
       IN  /\ PROJECT_ROOT' = Some(root)
           /\ storageDirs' = storageDirs \cup {agent_dir(root)}
           /\ ckptCall' = [NoStorageCall EXCEPT !.op = "get_agent_dir", !.path = agent_dir(root)]
    /\ UNCHANGED <<DB_TYPE, POSTGRES_URI, gitTop, saversBuilt>>
    /\ UNCHANGED notStorage

\* config.py lines 61-69: nothing is detected or created when the call raises
GetCheckpointPath ==
    /\ LET cp == get_checkpoint_path(DB_TYPE, PROJECT_ROOT, gitTop)
           root == root_after(PROJECT_ROOT, gitTop)
       IN  /\ ckptCall' = [NoStorageCall EXCEPT !.op = "get_checkpoint_path",
                                                !.raised = cp.raised, !.path = cp.path]
           /\ IF cp.raised # ""
              THEN UNCHANGED <<PROJECT_ROOT, storageDirs>>
              ELSE /\ PROJECT_ROOT' = Some(root)
                   /\ storageDirs' = storageDirs \cup {agent_dir(root),
                                                        agent_dir(root) \o <<"checkpoints">>}
    /\ UNCHANGED <<DB_TYPE, POSTGRES_URI, gitTop, saversBuilt>>
    /\ UNCHANGED notStorage

\* checkpoint.py lines 10-41, and lines 44-55, which add nothing to the call
SaverCall(op) ==
    /\ Len(saversBuilt) < MaxSavers
    /\ LET r == get_checkpoint_saver(DB_TYPE, POSTGRES_URI, PROJECT_ROOT, gitTop)
           root == root_after(PROJECT_ROOT, gitTop)
       IN  /\ ckptCall' = [NoStorageCall EXCEPT !.op = op, !.raised = r.raised,
                                                !.saver = r.saver]
           /\ saversBuilt' = IF r.saver # None THEN Append(saversBuilt, r.saver[1])
                              ELSE saversBuilt
           /\ IF DB_TYPE = "sqlite"
              THEN /\ PROJECT_ROOT' = Some(root)
                   /\ storageDirs' = storageDirs \cup {agent_dir(root),
                                                        agent_dir(root) \o <<"checkpoints">>}
              ELSE UNCHANGED <<PROJECT_ROOT, storageDirs>>
    /\ UNCHANGED <<DB_TYPE, POSTGRES_URI, gitTop>>
    /\ UNCHANGED notStorage

GetCheckpointSaver == SaverCall("get_checkpoint_saver")

InitCheckpointDb == SaverCall("init_checkpoint_db")

NoExc == [exc |-> None, captured |-> FALSE, changed |-> FALSE]

InitCaptureVars == lastExc = NoExc

\* the configuration of an environment that sets none of the variables, for the
\* components that do not read it
DefaultStorageVars ==
    /\ DB_TYPE = "sqlite"
    /\ POSTGRES_URI = ""
    /\ PROJECT_ROOT = None
    /\ gitTop = None
    /\ storageDirs = {}
    /\ ckptCall = NoStorageCall
    /\ saversBuilt = <<>>

\* the threads of control that run _create_request beside each other: the tool
\* calls of one model turn run on a pool of threads
Callers == {"c1", "c2"}

NoArgs == [request_type |-> "", thread_id |-> ""]

InitCreateVars ==
    /\ crpc = [c \in Callers |-> "idle"]
    /\ crArgs = [c \in Callers |-> NoArgs]
    /\ crTmp = [c \in Callers |-> 0]
    /\ crLog = <<>>

\* run_ralph_mode before its loop, for a max_iterations of 0; the components
\* that do not run it stay here
DefaultRalphVars ==
    /\ max_iterations = 0
    /\ iteration = 0
    /\ state_messages = <<"task">>
    /\ results = <<>>
    /\ ralph_pc = "loop"
    /\ ralph_ret = None
    /\ ralphLog = <<>>

InitLastVars == InitCaptureVars /\ InitCreateVars /\ DefaultRalphVars

InitLaterVars == InitFileVars /\ InitBashVars /\ InitDaemonVars /\ DefaultStorageVars /\ InitLastVars

(***************************************************************************)
(* subagent_interrupt.py                                                   *)
(***************************************************************************)
\* lines 72-80: the record stored for a captured interrupt; the "response" key is
\* absent at creation, which .get("response") reads as None
interrupt_info(id, subagent_id, subagent_name, raised) ==
    [ id             |-> id,
      subagent_id    |-> subagent_id,
      subagent_name  |-> subagent_name,
      interrupt_type |-> IF raised = "interrupt_dict" THEN "credentials" ELSE "guidance",
      status         |-> "pending",
      response       |-> None ]

\* index of the first entry of pi satisfying the test, 0 when there is none
FirstResponded(pi) ==
    LET hits == {i \in 1..Len(pi) : pi[i].status = "responded"}
    IN  IF hits = {} THEN 0 ELSE CHOOSE i \in hits : \A j \in hits : i <= j

FirstWithId(pi, interrupt_id) ==
    LET hits == {i \in 1..Len(pi) : pi[i].id = interrupt_id}
    IN  IF hits = {} THEN 0 ELSE CHOOSE i \in hits : \A j \in hits : i <= j

\* a plausible slip: the responded entry is returned but not marked resumed
check_and_resume_no_mark(pi) ==
    LET i == FirstResponded(pi)
    IN  IF i = 0
        THEN [state |-> pi, ret |-> None]
        ELSE [state |-> pi,
              ret   |-> Some([resume_subagent_id |-> pi[i].subagent_id,
                              resume_value       |-> pi[i].response,
                              interrupt_id       |-> pi[i].id])]

\* a plausible slip: every responded entry is marked resumed, the first is returned
check_and_resume_marks_all(pi) ==
    LET i == FirstResponded(pi)
    IN  IF i = 0
        THEN [state |-> pi, ret |-> None]
        ELSE [state |-> [j \in 1..Len(pi) |->
                           IF pi[j].status = "responded"
                           THEN [pi[j] EXCEPT !.status = "resumed"] ELSE pi[j]],
              ret   |-> Some([resume_subagent_id |-> pi[i].subagent_id,
                              resume_value       |-> pi[i].response,
                              interrupt_id       |-> pi[i].id])]

\* lines 99-121: the first responded entry is marked resumed and returned
check_and_resume_subagents(pi) ==
    LET i == FirstResponded(pi)
    IN  IF i = 0
        THEN [state |-> pi, ret |-> None]
        ELSE [state |-> [pi EXCEPT ![i].status = "resumed"],
              ret   |-> Some([resume_subagent_id |-> pi[i].subagent_id,
                              resume_value       |-> pi[i].response,
                              interrupt_id       |-> pi[i].id])]

\* index of the first pending entry of pi, 0 when there is none
FirstPending(pi) ==
    LET hits == {i \in 1..Len(pi) : pi[i].status = "pending"}
    IN  IF hits = {} THEN 0 ELSE CHOOSE i \in hits : \A j \in hits : i <= j

\* a plausible slip: the response goes to the oldest pending entry, whatever id
\* was passed
respond_in_arrival_order(pi, interrupt_id, response) ==
    LET i == FirstPending(pi)
    IN  IF i = 0 \/ FirstWithId(pi, interrupt_id) = 0
        THEN [state |-> pi, ret |-> FALSE]
        ELSE [state |-> [pi EXCEPT ![i].status = "responded",
                                   ![i].response = Some(response)],
              ret   |-> TRUE]

\* lines 124-147: the first entry with the id is set to responded, whatever its
\* status was
respond_to_subagent_interrupt(pi, interrupt_id, response) ==
    LET i == FirstWithId(pi, interrupt_id)
    IN  IF i = 0
        THEN [state |-> pi, ret |-> FALSE]
        ELSE [state |-> [pi EXCEPT ![i].status = "responded",
                                   ![i].response = Some(response)],
              ret   |-> TRUE]

NoCall == [op |-> "none", id |-> 0, value |-> None, ok |-> FALSE, ret |-> None, pre |-> "none"]

\* status of the entry with the id, "absent" when there is none
StatusOf(pi, interrupt_id) ==
    LET i == FirstWithId(pi, interrupt_id)
    IN  IF i = 0 THEN "absent" ELSE pi[i].status

InitFwdVars ==
    /\ psiKey \in BOOLEAN
    /\ psi = <<>>
    /\ spc = [s \in Subagents |-> "idle"]
    /\ sinfo = [s \in Subagents |-> None]
    /\ uuidCount = 0
    /\ lastCall = NoCall
    /\ given = [i \in 1..MaxUuid |-> None]

InitFwd == InitFwdVars /\ InitPortVars /\ InitSessVars /\ InitStartVars /\ InitToolVars /\ InitHumanVars /\ InitLaterVars

\* lines 43-47: subagent.invoke returns normally
InvokeReturns(s) ==
    /\ spc[s] = "idle"
    /\ lastCall' = [NoCall EXCEPT !.op = "execute", !.ok = TRUE]
    /\ UNCHANGED <<psiKey, psi, spc, sinfo, uuidCount, given>>
    /\ UNCHANGED notFwd

\* lines 43-80: subagent.invoke raises; an exception with no interrupt value is
\* re-raised, otherwise interrupt_info is built
InvokeRaises(s) ==
    /\ spc[s] = "idle"
    /\ \E raised \in Raised :
         IF raised = "other"
         THEN /\ lastCall' = [NoCall EXCEPT !.op = "reraise"]
              /\ UNCHANGED <<spc, sinfo, uuidCount>>
         ELSE /\ uuidCount + 2 <= MaxUuid
              /\ uuidCount' = uuidCount + 2
              /\ sinfo' = [sinfo EXCEPT ![s] =
                             Some(interrupt_info(uuidCount + 2, uuidCount + 1, s, raised))]
              /\ spc' = [spc EXCEPT ![s] = "check"]
              /\ UNCHANGED lastCall
    /\ UNCHANGED <<psiKey, psi, given>>
    /\ UNCHANGED notFwd

\* line 83: the membership test
CheckKey(s) ==
    /\ spc[s] = "check"
    /\ spc' = [spc EXCEPT ![s] = IF psiKey THEN "append" ELSE "init"]
    /\ UNCHANGED <<psiKey, psi, sinfo, uuidCount, lastCall, given>>
    /\ UNCHANGED notFwd

\* line 84: the key is bound to a new empty list
InitKey(s) ==
    /\ spc[s] = "init"
    /\ psiKey' = TRUE
    /\ psi' = <<>>
    /\ spc' = [spc EXCEPT ![s] = "append"]
    /\ lastCall' = [NoCall EXCEPT !.op = "init_key"]
    /\ UNCHANGED <<sinfo, uuidCount, given>>
    /\ UNCHANGED notFwd

\* lines 87-96: the entry is appended and waiting_for_human is returned
AppendInfo(s) ==
    /\ spc[s] = "append"
    /\ psi' = Append(psi, sinfo[s][1])
    /\ lastCall' = [NoCall EXCEPT !.op = "execute", !.id = sinfo[s][1].id]
    /\ sinfo' = [sinfo EXCEPT ![s] = None]
    /\ spc' = [spc EXCEPT ![s] = "idle"]
    /\ UNCHANGED <<psiKey, uuidCount, given>>
    /\ UNCHANGED notFwd

\* a call respond_to_subagent_interrupt(state, interrupt_id, response); the id is
\* one of an interrupt captured so far or one no interrupt has
Respond ==
    \E interrupt_id \in {2 * k : k \in 1..(uuidCount \div 2)} \cup {UnknownId},
       response \in Values :
      LET r == respond_to_subagent_interrupt(psi, interrupt_id, response)
      IN  /\ psi' = r.state
          /\ lastCall' = [op |-> "respond", id |-> interrupt_id, value |-> Some(response),
                          ok |-> r.ret, ret |-> None, pre |-> StatusOf(psi, interrupt_id)]
          /\ given' = IF r.ret THEN [given EXCEPT ![interrupt_id] = Some(response)] ELSE given
          /\ UNCHANGED <<psiKey, spc, sinfo, uuidCount>>
    /\ UNCHANGED notFwd

\* a call check_and_resume_subagents(state)
CheckAndResume ==
    LET r == check_and_resume_subagents(psi)
    IN  /\ psi' = r.state
        /\ lastCall' = [NoCall EXCEPT !.op = "resume", !.ok = (r.ret # None), !.ret = r.ret]
        /\ UNCHANGED <<psiKey, spc, sinfo, uuidCount, given>>
    /\ UNCHANGED notFwd

NextFwd ==
    \/ \E s \in Subagents : InvokeReturns(s)
    \/ \E s \in Subagents : InvokeRaises(s)
    \/ \E s \in Subagents : CheckKey(s)
    \/ \E s \in Subagents : InitKey(s)
    \/ \E s \in Subagents : AppendInfo(s)
    \/ Respond
    \/ CheckAndResume

SpecFwd == InitFwd /\ [][NextFwd]_vars

(***************************************************************************)
(* subagent_interrupt.py: what the except clause makes of an exception     *)
(***************************************************************************)
\* e.args[0]: a non-empty tuple (has_value and value describe its first element),
\* the empty tuple, a dict, or any other object; value is what the .value
\* attribute holds: a dict, something that is not a dict, or None
FirstArgs ==
    {fa \in [shape : {"tuple", "empty_tuple", "dict", "object"},
             has_value : BOOLEAN, value : {"dict", "plain", "none"}] :
        /\ (~fa.has_value => fa.value = "none")
        /\ (fa.shape \in {"empty_tuple", "dict"} => ~fa.has_value)}

\* what subagent.invoke can raise: langgraph's GraphInterrupt, whose first
\* argument is the tuple of Interrupt objects, or any other Exception
Exceptions ==
    {e \in [type : {"GraphInterrupt", "Exception"},
            args : {None} \cup {Some(fa) : fa \in FirstArgs}] :
        e.type = "GraphInterrupt" =>
            /\ e.args # None
            /\ e.args[1].shape \in {"tuple", "empty_tuple"}
            /\ (e.args[1].shape = "tuple" => e.args[1].has_value)}

\* lines 51-66: interrupt_value, None when nothing was extracted
extract_interrupt_value(e) ==
    IF e.args = None THEN None
    ELSE LET first_arg == e.args[1]
         IN  IF first_arg.shape = "tuple"
             THEN IF first_arg.has_value /\ first_arg.value # "none"
                  THEN Some(first_arg.value) ELSE None
             ELSE IF first_arg.has_value
             THEN IF first_arg.value # "none" THEN Some(first_arg.value) ELSE None
             ELSE IF first_arg.shape = "dict" THEN Some("dict")
             ELSE None

\* lines 43-96 as one step of a parent that runs one sub-agent at a time:
\* subagent.invoke raises e
Capture(s) ==
    /\ \A s2 \in Subagents : spc[s2] = "idle"
    /\ \E e \in Exceptions :
         LET interrupt_value == extract_interrupt_value(e)
         IN  IF interrupt_value = None
             THEN /\ lastCall' = [NoCall EXCEPT !.op = "reraise"]
                  /\ UNCHANGED <<psiKey, psi, uuidCount>>
                  /\ lastExc' = [exc |-> Some(e), captured |-> FALSE, changed |-> psi' # psi]
             ELSE /\ uuidCount + 2 <= MaxUuid
                  /\ uuidCount' = uuidCount + 2
                  /\ psiKey' = TRUE
                  /\ psi' = Append(IF psiKey THEN psi ELSE <<>>,
                                   interrupt_info(uuidCount + 2, uuidCount + 1, s,
                                       IF interrupt_value[1] = "dict"
                                       THEN "interrupt_dict" ELSE "interrupt_plain"))
                  /\ lastCall' = [NoCall EXCEPT !.op = "execute", !.id = uuidCount + 2]
                  /\ lastExc' = [exc |-> Some(e), captured |-> TRUE, changed |-> psi' # psi]
    /\ UNCHANGED <<spc, sinfo, given>>
    /\ UNCHANGED notCapture

InitCapture == InitFwd

NextCapture ==
    \/ \E s \in Subagents : InvokeReturns(s)
    \/ \E s \in Subagents : Capture(s)
    \/ Respond
    \/ CheckAndResume

SpecCapture == InitCapture /\ [][NextCapture]_vars

(***************************************************************************)
(* The port allocator driven directly                                      *)
(***************************************************************************)
InitPort == InitFwdVars /\ psiKey /\ InitPortVars /\ InitSessVars /\ InitStartVars /\ InitToolVars /\ InitHumanVars /\ InitLaterVars

NextPort ==
    \/ \E t \in Threads : PortGet(t)
    \/ \E t \in Threads : PortUrl(t)
    \/ \E t \in Threads : PortRelease(t)

SpecPort == InitPort /\ [][NextPort]_vars

(***************************************************************************)
(* The browser tools of two threads and the reaper                         *)
(***************************************************************************)
InitSess == InitFwdVars /\ psiKey /\ InitPortVars /\ InitSessVars /\ InitStartVars /\ InitToolVars /\ InitHumanVars /\ InitLaterVars

NextSess ==
    \/ Tick
    \/ \E t \in SessThreads : NavStart(t)
    \/ \E t \in SessThreads : NavRun(t)
    \/ \E t \in SessThreads : NavUrl(t)
    \/ \E t \in SessThreads : NavMark(t)
    \/ \E t \in SessThreads : Click(t)
    \/ \E t \in SessThreads : CloseRun(t)
    \/ \E t \in SessThreads : CloseRelease(t)
    \/ \E t \in SessThreads : CloseMark(t)
    \/ ReaperScan
    \/ ReaperClose
    \/ ReaperRelease
    \/ ReaperMark
    \/ ReaperSleep

SpecSess == InitSess /\ [][NextSess]_vars

(***************************************************************************)
(* Tool calls whose commands succeed, racing with the reaper               *)
(***************************************************************************)
InitRace == InitFwdVars /\ psiKey /\ InitPortVars /\ InitSessVars /\ InitStartVars /\ InitToolVars /\ InitHumanVars /\ InitLaterVars

NextRace ==
    \/ Tick
    \/ \E t \in SessThreads : NavStart(t)
    \/ \E t \in SessThreads : NavRunSucceeds(t)
    \/ \E t \in SessThreads : NavUrl(t)
    \/ \E t \in SessThreads : NavMark(t)
    \/ \E t \in SessThreads : Click(t)
    \/ ReaperScan
    \/ ReaperClose
    \/ ReaperRelease
    \/ ReaperMark
    \/ ReaperSleep

SpecRace == InitRace /\ [][NextRace]_vars

(***************************************************************************)
(* The browser tools of two threads on open sessions                       *)
(***************************************************************************)
InitTools == InitFwdVars /\ psiKey /\ InitPortVars /\ InitSessVars /\ InitStartVars /\ InitToolVars /\ InitHumanVars /\ InitLaterVars

NextTools ==
    \/ Tick
    \/ \E t \in SessThreads : NavStart(t)
    \/ \E t \in SessThreads : NavRun(t)
    \/ \E t \in SessThreads : NavUrl(t)
    \/ \E t \in SessThreads : NavMark(t)
    \/ \E t \in SessThreads, tool \in ActingTools : ActingTool(t, tool)
    \/ \E t \in SessThreads, tool \in ReadingTools : ReadingTool(t, tool)

SpecTools == InitTools /\ [][NextTools]_vars

(***************************************************************************)
(* The lazy start of the reaper by concurrent browser_navigate calls       *)
(***************************************************************************)
InitStart == InitFwdVars /\ psiKey /\ InitPortVars /\ InitSessVars /\ InitStartVars /\ InitToolVars /\ InitHumanVars /\ InitLaterVars

NextStart ==
    \/ \E c \in SessThreads : StartTest(c)
    \/ \E c \in SessThreads : StartCreate(c)
    \/ \E c \in SessThreads : StartStart(c)
    \/ \E h \in 1..MaxReapers : LoopEntry(h)
    \/ \E h \in 1..MaxReapers : LoopExit(h)
    \/ StopCleanup

SpecStart == InitStart /\ [][NextStart]_vars

(***************************************************************************)
(* The human-request broker: the request tools, the human, the check tool  *)
(***************************************************************************)
InitHuman == InitFwdVars /\ psiKey /\ InitPortVars /\ InitSessVars /\ InitStartVars /\ InitToolVars /\ InitHumanVars /\ InitLaterVars

NextHuman ==
    \/ \E t \in HumanThreads : RequestHumanGuidance(t)
    \/ \E t \in HumanThreads : RequestCredentials(t)
    \/ \E t \in HumanThreads : RequestConfirmation(t)
    \/ SubmitResponse
    \/ \E t \in HumanThreads : CheckHumanResponse(t)

SpecHuman == InitHuman /\ [][NextHuman]_vars

(***************************************************************************)
(* _create_request, statement by statement, on two threads of control      *)
(***************************************************************************)
\* calls of _create_request begun so far
CreateCalls == Len(crLog) + Cardinality({c \in Callers : crpc[c] # "idle"})

\* line 38, first half: _request_counter is read
CreateRead(c) ==
    /\ crpc[c] = "idle"
    /\ CreateCalls < MaxRequests
    /\ \E request_type \in RequestTypes, thread_id \in HumanThreads :
         crArgs' = [crArgs EXCEPT ![c] = [request_type |-> request_type,
                                          thread_id |-> thread_id]]
    /\ crTmp' = [crTmp EXCEPT ![c] = request_counter]
    /\ crpc' = [crpc EXCEPT ![c] = "write"]
    /\ UNCHANGED <<human_requests, request_counter, loop, hlCall, crLog>>
    /\ UNCHANGED notCreate

\* line 38, second half: the value read plus one is stored
CreateWrite(c) ==
    /\ crpc[c] = "write"
    /\ request_counter' = crTmp[c] + 1
    /\ crpc' = [crpc EXCEPT ![c] = "store"]
    /\ UNCHANGED <<human_requests, loop, hlCall, crArgs, crTmp, crLog>>
    /\ UNCHANGED notCreate

\* lines 39-55: the id is made from _request_counter as it is now, the request is
\* stored under it and returned
CreateStore(c) ==
    /\ crpc[c] = "store"
    /\ LET request_id == request_id_of(crArgs[c].thread_id, crArgs[c].request_type,
                                       request_counter)
           request == [id        |-> request_id,
                       type      |-> crArgs[c].request_type,
                       thread_id |-> crArgs[c].thread_id,
                       status    |-> "pending",
                       response  |-> None]
           i == RequestIndex(human_requests, request_id)
       IN  /\ human_requests' = IF i = 0 THEN Append(human_requests, request)
                                          ELSE [human_requests EXCEPT ![i] = request]
           /\ crLog' = Append(crLog, request_id)
    /\ crpc' = [crpc EXCEPT ![c] = "idle"]
    /\ crArgs' = [crArgs EXCEPT ![c] = NoArgs]
    /\ crTmp' = [crTmp EXCEPT ![c] = 0]
    /\ UNCHANGED <<request_counter, loop, hlCall>>
    /\ UNCHANGED notCreate

InitCreate == InitHuman

NextCreate ==
    \/ \E c \in Callers : CreateRead(c)
    \/ \E c \in Callers : CreateWrite(c)
    \/ \E c \in Callers : CreateStore(c)

SpecCreate == InitCreate /\ [][NextCreate]_vars

(***************************************************************************)
(* browser_agent.py: run_ralph_mode                                        *)
(***************************************************************************)
MaxIterations == 3                \* the largest max_iterations passed

\* how one pass through the try block goes: agent.invoke raises; it returns a
\* result whose last message is a string containing a completion word, or one
\* containing none; it returns a result without messages; it returns a result
\* whose last message has a list of content blocks, on which .lower() raises
IterationOutcomes == {"raises", "completion", "plain", "no_messages", "blocks"}

\* a plausible slip: a completion word does not end the loop
ralph_iteration_no_break(it, maxit, outcome, messages, res) ==
    IF outcome \in {"raises", "blocks"}
    THEN [messages |-> messages,
          results  |-> IF outcome = "blocks" THEN Append(res, it) ELSE res,
          next     |-> IF it = maxit THEN "raise" ELSE "continue"]
    ELSE [messages |-> IF it < maxit THEN Append(messages, "reflection") ELSE messages,
          results  |-> Append(res, it),
          next     |-> "continue"]

\* a plausible slip: the exception of the last iteration is swallowed like the
\* others
ralph_iteration_swallows_last(it, maxit, outcome, messages, res) ==
    IF outcome = "raises"
    THEN [messages |-> messages, results |-> res, next |-> "continue"]
    ELSE IF outcome = "blocks"
    THEN [messages |-> messages, results |-> Append(res, it), next |-> "continue"]
    ELSE IF outcome = "completion"
    THEN [messages |-> messages, results |-> Append(res, it), next |-> "break"]
    ELSE [messages |-> IF it < maxit THEN Append(messages, "reflection") ELSE messages,
          results  |-> Append(res, it),
          next     |-> "continue"]

\* lines 245-276, the body of the for loop in iteration it: the new message list
\* and results (a result is named by the iteration that produced it), and how
\* the body is left
ralph_iteration(it, maxit, outcome, messages, res) ==
    IF outcome = "raises"
    THEN [messages |-> messages, results |-> res,
          next |-> IF it = maxit THEN "raise" ELSE "continue"]
    ELSE IF outcome = "blocks"
    THEN [messages |-> messages, results |-> Append(res, it),
          next |-> IF it = maxit THEN "raise" ELSE "continue"]
    ELSE IF outcome = "completion"
    THEN [messages |-> messages, results |-> Append(res, it), next |-> "break"]
    ELSE [messages |-> IF it < maxit THEN Append(messages, "reflection") ELSE messages,
          results  |-> Append(res, it),
          next     |-> "continue"]

InitRalphVars ==
    /\ max_iterations \in 0..MaxIterations
    /\ iteration = 0
    /\ state_messages = <<"task">>
    /\ results = <<>>
    /\ ralph_pc = "loop"
    /\ ralph_ret = None
    /\ ralphLog = <<>>

\* one iteration of the for loop of line 245
RalphIteration ==
    /\ ralph_pc = "loop"
    /\ iteration < max_iterations
    /\ iteration' = iteration + 1
    /\ \E outcome \in IterationOutcomes :
         LET r == ralph_iteration(iteration + 1, max_iterations, outcome,
                                  state_messages, results)
         IN  /\ state_messages' = r.messages
             /\ results' = r.results
             /\ ralph_pc' = CASE r.next = "break"    -> "after_loop"
                               [] r.next = "raise"    -> "raised"
                               [] r.next = "continue" -> "loop"
             /\ ralphLog' = Append(ralphLog, outcome)
    /\ UNCHANGED <<max_iterations, ralph_ret>>
    /\ UNCHANGED notRalph

\* line 279, reached by break or when the range is used up: results[-1] if
\* results else {} ; None stands for the empty dict
RalphReturn ==
    /\ \/ ralph_pc = "after_loop"
       \/ ralph_pc = "loop" /\ iteration = max_iterations
    /\ ralph_ret' = IF results # <<>> THEN Some(results[Len(results)]) ELSE None
    /\ ralph_pc' = "returned"
    /\ UNCHANGED <<max_iterations, iteration, state_messages, results, ralphLog>>
    /\ UNCHANGED notRalph

InitRalph ==
    /\ InitFwdVars /\ psiKey /\ InitPortVars /\ InitSessVars /\ InitStartVars
    /\ InitToolVars /\ InitHumanVars
    /\ InitFileVars /\ InitBashVars /\ InitDaemonVars /\ DefaultStorageVars
    /\ InitCaptureVars /\ InitCreateVars /\ InitRalphVars

NextRalph ==
    \/ RalphIteration
    \/ RalphReturn

SpecRalph == InitRalph /\ [][NextRalph]_vars

(***************************************************************************)
(* The loops of two threads: the broker, the model turns and bash_execute  *)
(***************************************************************************)
InitLoop == InitFwdVars /\ psiKey /\ InitPortVars /\ InitSessVars /\ InitStartVars /\ InitToolVars /\ InitHumanVars /\ InitLaterVars

NextLoop ==
    \/ \E t \in HumanThreads : RequestHumanGuidance(t)
    \/ \E t \in HumanThreads : RequestCredentials(t)
    \/ \E t \in HumanThreads : RequestConfirmation(t)
    \/ SubmitResponse
    \/ \E t \in HumanThreads : CheckHumanResponse(t)
    \/ \E t \in HumanThreads : ModelTurn(t)
    \/ \E t \in HumanThreads : BashExecute(t)
    \/ \E t \in HumanThreads : BashResume(t)

SpecLoop == InitLoop /\ [][NextLoop]_vars

(***************************************************************************)
(* The reducer applied to partial updates, redelivery included             *)
(***************************************************************************)
InitMerge == InitFwdVars /\ psiKey /\ InitPortVars /\ InitSessVars /\ InitStartVars /\ InitToolVars /\ InitHumanVars /\ InitLaterVars

NextMerge ==
    \/ Merge
    \/ Redeliver

SpecMerge == InitMerge /\ [][NextMerge]_vars

(***************************************************************************)
(* present_file calls applied through the reducer                          *)
(***************************************************************************)
InitFiles == InitFwdVars /\ psiKey /\ InitPortVars /\ InitSessVars /\ InitStartVars /\ InitToolVars /\ InitHumanVars /\ InitLaterVars

NextFiles ==
    \/ \E file_path \in FilePaths : PresentFile(file_path)

SpecFiles == InitFiles /\ [][NextFiles]_vars

(***************************************************************************)
(* bash_execute calls and their approvals                                  *)
(***************************************************************************)
InitBash == InitFwdVars /\ psiKey /\ InitPortVars /\ InitSessVars /\ InitStartVars /\ InitToolVars /\ InitHumanVars /\ InitLaterVars

NextBash ==
    \/ BashCall
    \/ BashResumed

SpecBash == InitBash /\ [][NextBash]_vars

(***************************************************************************)
(* Callers of _cleanup_stale_daemons                                       *)
(***************************************************************************)
InitDaemon == InitFwdVars /\ psiKey /\ InitPortVars /\ InitSessVars /\ InitStartVars /\ InitToolVars /\ InitHumanVars /\ InitLaterVars

NextDaemon ==
    \/ DaemonTick
    \/ \E c \in DaemonCallers : DaemonCall(c)
    \/ \E c \in DaemonCallers : DaemonEnter(c)
    \/ \E c \in DaemonCallers : DaemonScanEnd(c)

SpecDaemon == InitDaemon /\ [][NextDaemon]_vars

(***************************************************************************)
(* The storage configuration and the checkpoint saver factory              *)
(***************************************************************************)
InitStorage == InitFwdVars /\ psiKey /\ InitPortVars /\ InitSessVars /\ InitStartVars /\ InitToolVars /\ InitHumanVars /\ InitFileVars /\ InitBashVars /\ InitDaemonVars /\ InitStorageVars /\ InitLastVars

NextStorage ==
    \/ GetAgentDir
    \/ GetCheckpointPath
    \/ GetCheckpointSaver
    \/ InitCheckpointDb

SpecStorage == InitStorage /\ [][NextStorage]_vars

(***************************************************************************)
(* Claims about the sub-agent interrupt forwarder (SpecFwd)                *)
(***************************************************************************)
StoredIds == {psi[i].id : i \in 1..Len(psi)}
EntryOf(pi, interrupt_id) == pi[FirstWithId(pi, interrupt_id)]
OthersResponded(pi, interrupt_id) ==
    \E i \in 1..Len(pi) : pi[i].id # interrupt_id /\ pi[i].status = "responded"

\* C1: interrupt round trip. A check_and_resume_subagents call that directly
\* follows an accepted respond_to_subagent_interrupt(id, v) returns an entry; when
\* it names id (as it must when no other entry is responded) its resume_value is
\* exactly v and its resume_subagent_id is the one captured with id. Whatever a
\* check_and_resume_subagents call returns carries the value last given for the
\* returned id, and that entry goes from responded to resumed. A
\* check_and_resume_subagents call that directly follows one that delivered id,
\* with no other entry responded, returns None.
C1_RoundTrip ==
    [][ CheckAndResume =>
          /\ (lastCall.op = "respond" /\ lastCall.ok) =>
                /\ lastCall'.ret # None
                /\ (lastCall'.ret[1].interrupt_id = lastCall.id) =>
                      /\ lastCall'.ret[1].resume_value = lastCall.value
                      /\ lastCall'.ret[1].resume_subagent_id = EntryOf(psi, lastCall.id).subagent_id
                /\ ~OthersResponded(psi, lastCall.id) =>
                      lastCall'.ret[1].interrupt_id = lastCall.id
          /\ (lastCall'.ret # None) =>
                /\ lastCall'.ret[1].resume_value # None
                /\ lastCall'.ret[1].resume_value = given[lastCall'.ret[1].interrupt_id]
                /\ StatusOf(psi, lastCall'.ret[1].interrupt_id) = "responded"
                /\ StatusOf(psi', lastCall'.ret[1].interrupt_id) = "resumed"
          /\ (lastCall.op = "resume" /\ lastCall.ok
                /\ ~OthersResponded(psi, lastCall.ret[1].interrupt_id)) =>
                lastCall'.ret = None
      ]_vars

\* C1 witness: a second check_and_resume_subagents has just returned None while the
\* list holds a resumed entry that carries the value given for it
C1_Witness ==
    /\ lastCall.op = "resume"
    /\ ~lastCall.ok
    /\ \E i \in 1..Len(psi) :
         /\ psi[i].status = "resumed"
         /\ psi[i].response = Some("b")
         /\ given[psi[i].id] = Some("b")
    /\ \A i \in 1..Len(psi) : psi[i].status # "responded"

\* C2: respond_to_subagent_interrupt on an id that is not stored, or whose entry is
\* not pending, returns False and leaves the list unchanged.
C2_StaleResponseRejected ==
    [][ (Respond /\ StatusOf(psi, lastCall'.id) # "pending") =>
          (~lastCall'.ok /\ psi' = psi) ]_vars

\* C3: the status of a stored interrupt only moves forward along
\* pending -> responded -> resumed, one stage at a time.
Rank(status) == CASE status = "pending" -> 0 [] status = "responded" -> 1 [] status = "resumed" -> 2

C3_StatusMonotone ==
    [][ \A id \in StoredIds :
          (StatusOf(psi', id) # "absent") =>
             /\ Rank(StatusOf(psi', id)) >= Rank(StatusOf(psi, id))
             /\ Rank(StatusOf(psi', id)) <= Rank(StatusOf(psi, id)) + 1
      ]_vars

(***************************************************************************)
(* Claims about the port allocator (SpecPort)                              *)
(***************************************************************************)
InPortRange(port) == base_port <= port /\ port < base_port + max_offset

\* C6: every get_port_for_thread / get_stream_url call returns the port of the
\* thread's first allocation, also after release_port has removed the mapping in
\* between, and every allocated port lies in [base_port, base_port + max_offset).
C6_PortDeterministic ==
    /\ portCall.op \in {"get_port", "get_stream_url"} =>
          /\ portCall.port = firstPort[portCall.thread]
          /\ InPortRange(portCall.port)
    /\ \A t \in DOMAIN active_ports :
          InPortRange(active_ports[t]) /\ active_ports[t] = firstPort[t]

\* C6 witness: a thread whose mapping was released has been allocated again and
\* got the port of its first allocation
C6_Witness ==
    /\ portCall.op = "get_port"
    /\ portCall.thread \in relSeen
    /\ ~portCall.had
    /\ portCall.port = firstPort[portCall.thread]
    /\ portCall.port = 9223 + 991

\* C9: release_port on a thread with no mapping raises nothing and leaves the
\* port table, every other thread's mapping included, unchanged.
C9_ReleaseNoop ==
    [][ \A t \in Threads :
          (PortRelease(t) /\ ~is_active(active_ports, t)) =>
             (active_ports' = active_ports /\ ~portCall'.raised) ]_vars

\* C9 witness: a second release_port of a thread has just returned without error
\* while another thread holds its mapping
C9_Witness ==
    /\ portCall.op = "release"
    /\ ~portCall.had
    /\ ~portCall.raised
    /\ portCall.thread \in relSeen
    /\ \E t \in DOMAIN active_ports : t # portCall.thread

(***************************************************************************)
(* Claims about the session registry and the reaper (SpecSess)             *)
(***************************************************************************)
\* the reaper is between its close command for a thread and marking it inactive
ReaperClosing(t) == rpc \in {"release", "mark"} /\ rlist # <<>> /\ Head(rlist) = t

\* C4: once a browser_close of a thread has returned, and until a browser_navigate
\* is issued for it, the registry holds the thread's record with isActive false,
\* wherever the reaper is in its sweep.
C4_InactiveAfterClose ==
    \A t \in SessThreads :
       closedDone[t] =>
          /\ HasSession(browser_sessions, t)
          /\ ~IsActive(browser_sessions, t)

\* C4 witness: a browser_close of a thread has returned while the reaper is in the
\* middle of closing the same thread
C4_Witness ==
    \E t \in SessThreads :
       /\ closedDone[t]
       /\ ReaperClosing(t)
       /\ ~IsActive(browser_sessions, t)

\* C5: a reaper scan queues every active session idle for longer than
\* BROWSER_TIMEOUT_SECONDS and no other, every queued session gets the close
\* command, the port release and isActive false, and the reaper issues its close
\* command only for a session that is idle for longer than the timeout at that
\* moment.
C5_IdleTimeout ==
    [][ /\ ReaperScan =>
             \A t \in SessThreads :
                (\E i \in 1..Len(rlist') : rlist'[i] = t)
                   <=> (HasSession(browser_sessions, t)
                          /\ IsIdle(SessionOf(browser_sessions, t), now))
        /\ ReaperClose =>
             /\ rpc' = "release"
             /\ HasSession(browser_sessions, Head(rlist))
             /\ IsIdle(SessionOf(browser_sessions, Head(rlist)), now)
        /\ ReaperRelease => Head(rlist) \notin DOMAIN active_ports'
        /\ ReaperMark => ~IsActive(browser_sessions', Head(rlist))
      ]_vars

\* C7: browser_close and the reaper go on to release the port and to mark the
\* session inactive whatever the close command returned; when browser_close
\* returns, the thread has no port and its session is inactive.
C7_CleanupAfterFailedClose ==
    [][ /\ \A t \in SessThreads :
             /\ CloseRun(t) => tpc'[t] = "close_release"
             /\ CloseRelease(t) => (tpc'[t] = "close_mark" /\ t \notin DOMAIN active_ports')
             /\ CloseMark(t) =>
                   /\ tpc'[t] = "idle"
                   /\ t \notin DOMAIN active_ports'
                   /\ HasSession(browser_sessions', t)
                   /\ ~IsActive(browser_sessions', t)
        /\ ReaperClose => rpc' = "release"
        /\ ReaperRelease => (rpc' = "mark" /\ Head(rlist) \notin DOMAIN active_ports')
        /\ ReaperMark => ~IsActive(browser_sessions', Head(rlist))
      ]_vars

\* C7 witness: the close command of browser_close failed on an active session
\* that held a port, and the port is released
C7_Witness ==
    \E t \in SessThreads :
       /\ tpc[t] = "close_mark"
       /\ ~tres[t].success
       /\ ~wasClosed[t]
       /\ t \notin DOMAIN active_ports
       /\ ReaperClosing(t)
       /\ ~rres.success

\* C8: a browser_close of a thread whose session is inactive or was never opened
\* returns success, and leaves the registry and the port table as they were when
\* the session's record is already there and inactive.
C8_CloseIdempotent ==
    [][ \A t \in SessThreads :
          /\ (CloseMark(t) /\ wasClosed[t]) => tres[t].success
          /\ (CloseMark(t) /\ HasSession(browser_sessions, t) /\ ~IsActive(browser_sessions, t)) =>
                (browser_sessions' = browser_sessions /\ active_ports' = active_ports)
      ]_vars

(***************************************************************************)
(* Claims about the start of the reaper (SpecStart)                        *)
(***************************************************************************)
AliveReapers == {h \in 1..MaxReapers : thread_is_alive(tstate, h)}

\* C10: at most one _cleanup_inactive_sessions thread is alive at any time,
\* however the _start_cleanup_thread calls of concurrent browser_navigate calls
\* interleave.
C10_AtMostOneReaper == Cardinality(AliveReapers) <= 1

(***************************************************************************)
(* Claims about the human-request broker (SpecHuman, SpecLoop)             *)
(***************************************************************************)
\* C11: no thread has more than one request in pending status, and a request
\* tool called for a thread that already has a pending request stores no second
\* pending request.
C11_OnePendingPerOrigin ==
    \A t \in HumanThreads : Len(get_pending_requests(human_requests, t)) <= 1

\* C17: while a thread has a pending request its loop issues no model turn and no
\* bash_execute, and a loop inside interrupt() takes no step of its own.
C17_SuspendedWhilePending ==
    /\ hlCall.op \in {"model_turn", "bash_execute"} =>
          get_pending_requests(human_requests, hlCall.thread) = <<>>
    /\ \A t \in HumanThreads :
          (loop[t] = "interrupted" /\ hlCall.thread = t) => hlCall.op = "bash_execute"

\* C18: check_human_response on a credentials request returns no response while
\* the request is pending, returns the submitted response once it is completed,
\* and does not return it again to the check that follows.
C18_DeliveredOnce ==
    (hlCall.op = "check" /\ hlCall.id[2] = "credentials") =>
       /\ RequestStatus(human_requests, hlCall.id) = "pending" => ~hlCall.ok
       /\ hlCall.ok =>
             /\ RequestStatus(human_requests, hlCall.id) = "completed"
             /\ hlCall.value = get_request(human_requests, hlCall.id)[1].response
             /\ ~hlCall.repeat

\* the request with the id (the id is stored)
RequestOf(requests, request_id) == requests[RequestIndex(requests, request_id)]

\* C19: submit_response returns True exactly when the request is stored and
\* pending, and then stores the given response and nothing else; otherwise it
\* returns False and leaves every request as it was, so a stored response is
\* never replaced.
C19_SubmitRejectsStale ==
    [][ SubmitResponse =>
          /\ hlCall'.ok <=> (RequestStatus(human_requests, hlCall'.id) = "pending")
          /\ ~hlCall'.ok => human_requests' = human_requests
          /\ hlCall'.ok =>
                /\ RequestOf(human_requests', hlCall'.id).response = hlCall'.value
                /\ RequestOf(human_requests', hlCall'.id).status = "completed"
                /\ Len(human_requests') = Len(human_requests)
                /\ \A i \in 1..Len(human_requests) :
                      human_requests[i].id # hlCall'.id => human_requests'[i] = human_requests[i]
          /\ \A i \in 1..Len(human_requests) :
                human_requests[i].status = "completed" =>
                   human_requests'[i].response = human_requests[i].response
      ]_vars

\* C19 witness: a submit_response with another value for a completed request has
\* just returned False, and the request holds its first response; a submit for an
\* id that was never made is rejected in the same run
C19_Witness ==
    /\ hlCall.op = "submit"
    /\ ~hlCall.ok
    /\ RequestStatus(human_requests, hlCall.id) = "completed"
    /\ RequestOf(human_requests, hlCall.id).response # hlCall.value
    /\ \E i \in 1..Len(human_requests) : human_requests[i].status = "pending"

(***************************************************************************)
(* More claims about the sub-agent interrupt forwarder (SpecFwd)           *)
(***************************************************************************)
\* ids of the interrupts whose capturing call has returned
CapturedIds == {2 * k : k \in 1..(uuidCount \div 2)} \ {sinfo[s][1].id : s \in {x \in Subagents : sinfo[x] # None}}

\* C12: every interrupt whose execute_subagent_with_interrupt_capture call has
\* returned is an entry of the parent's list, once, also when the calls of two
\* sub-agents interleave and the key was absent at the start.
C12_BothStored ==
    /\ \A id \in CapturedIds : \E i \in 1..Len(psi) : psi[i].id = id
    /\ \A i, j \in 1..Len(psi) : psi[i].id = psi[j].id => i = j

\* C13: responses are matched by id. Every answered entry holds the value last
\* accepted for its own id, an entry nobody answered holds none, and what
\* check_and_resume_subagents returns for an id is that value together with the
\* subagent_id captured with the id.
C13_MatchedById ==
    /\ \A i \in 1..Len(psi) :
          /\ psi[i].response = given[psi[i].id]
          /\ (psi[i].status = "pending") <=> (psi[i].response = None)
          /\ psi[i].subagent_id = psi[i].id - 1
    /\ (lastCall.op = "resume" /\ lastCall.ok) =>
          /\ lastCall.ret[1].resume_value = given[lastCall.ret[1].interrupt_id]
          /\ lastCall.ret[1].resume_value # None
          /\ lastCall.ret[1].resume_subagent_id = lastCall.ret[1].interrupt_id - 1

\* C13 witness: two interrupts are stored, the older one was answered after the
\* newer one and with another value, and each holds its own
C13_Witness ==
    /\ Len(psi) = 2
    /\ lastCall.op = "respond"
    /\ lastCall.ok
    /\ lastCall.id = psi[1].id
    /\ lastCall.pre = "pending"
    /\ psi[2].status = "responded"
    /\ psi[1].response = Some("a")
    /\ psi[2].response = Some("b")

\* C20: a stored pending interrupt stays stored and pending, with no response,
\* through every step that is not a respond for its own id.
C20_PendingStays ==
    [][ \A id \in StoredIds :
          (StatusOf(psi, id) = "pending" /\ ~(Respond /\ lastCall'.id = id)) =>
             /\ StatusOf(psi', id) = "pending"
             /\ EntryOf(psi', id).response = None
      ]_vars

(***************************************************************************)
(* More claims about the session registry (SpecSess)                       *)
(***************************************************************************)
PortOf(ap, t) == IF t \in DOMAIN ap THEN Some(ap[t]) ELSE None
RecordOf(sessions, t) == IF HasSession(sessions, t) THEN Some(SessionOf(sessions, t)) ELSE None

\* a step of a close of thread t: browser_close(t) runs its command, releases or
\* marks, or the reaper does one of these for t
ClosingStep(t) ==
    \/ (tpc[t] = "idle" /\ tpc'[t] = "close_release")
    \/ (tpc[t] \in {"close_release", "close_mark"} /\ tpc'[t] # tpc[t])
    \/ (rpc \in {"close", "release", "mark"} /\ Head(rlist) = t
          /\ (rpc' # rpc \/ rlist' # rlist))

\* C14: no step of a close of thread t1, by browser_close or by the reaper,
\* changes the port mapping or the session record of another thread t2.
C14_CloseIsolated ==
    [][ \A t1, t2 \in SessThreads :
          (t1 # t2 /\ ClosingStep(t1)) =>
             /\ PortOf(active_ports', t2) = PortOf(active_ports, t2)
             /\ RecordOf(browser_sessions', t2) = RecordOf(browser_sessions, t2)
      ]_vars

\* C14 witness: t1 was opened first and is closed, its port released, while t2 is
\* active with its own port and stream url
C14_Witness ==
    /\ closedDone["t1"]
    /\ Len(browser_sessions) = 2
    /\ browser_sessions[1].sessionId = "t1"
    /\ ~browser_sessions[1].isActive
    /\ "t1" \notin DOMAIN active_ports
    /\ IsActive(browser_sessions, "t2")
    /\ PortOf(active_ports, "t2") = Some(base_port + 722)
    /\ SessionOf(browser_sessions, "t2").streamUrl = Some(<<"ws://localhost:", base_port + 722>>)

(***************************************************************************)
(* Claims about the browser tools (SpecTools)                              *)
(***************************************************************************)
\* C15: after a browser tool call whose command succeeded, the thread's active
\* session has a lastActivity no earlier than the time of that call.
C15_ActivityOnEveryTool ==
    (toolCall.tool # "none" /\ toolCall.result.success
       /\ IsActive(browser_sessions, toolCall.thread)) =>
       /\ SessionOf(browser_sessions, toolCall.thread).lastActivity # None
       /\ SessionOf(browser_sessions, toolCall.thread).lastActivity[1] >= toolCall.at

FailureTexts == {FailedText(tool) : tool \in ActingTools \cup ReadingTools}

\* C16: whatever the end of the external process, _run_browser_command returns a
\* record; for a timeout or a failure to spawn it has success false and a
\* non-empty error, and a tool whose command did not succeed returns its failure
\* text followed by that error.
C16_FailuresAreValues ==
    toolCall.tool # "none" =>
       /\ DOMAIN toolCall.result = {"success", "output", "error"}
       /\ toolCall.result.success \in BOOLEAN
       /\ toolCall.outcome \in {"timeout", "spawn_error"} =>
             /\ ~toolCall.result.success
             /\ toolCall.result.error # None
             /\ toolCall.result.error[1] # ""
       /\ ~toolCall.result.success =>
             /\ Len(toolCall.ret) = 2
             /\ toolCall.ret[1] \in FailureTexts
             /\ toolCall.ret[2] = toolCall.result.error
       /\ toolCall.result.success <=> (toolCall.outcome = "exit0")

\* C16 witness: browser_fill has returned its failure text with the timeout
\* message
C16_Witness ==
    /\ toolCall.tool = "fill"
    /\ toolCall.outcome = "timeout"
    /\ toolCall.ret = <<"Failed to fill {ref}: ", Some("Command timed out after 30 seconds")>>

(***************************************************************************)
(* Claims about capture and resume in the forwarder (SpecFwd)              *)
(***************************************************************************)
\* C21: a capturing call appends exactly one pending entry that carries the
\* sub-agent's name and a fresh id, returns that id, and no step of the call
\* changes or removes an entry that is already stored; a call whose sub-agent
\* returns normally leaves the list as it is and returns success.
C21_CaptureAppendsOne ==
    [][ \A s \in Subagents :
          /\ AppendInfo(s) =>
                /\ psi' = Append(psi, sinfo[s][1])
                /\ sinfo[s][1].status = "pending"
                /\ sinfo[s][1].subagent_name = s
                /\ sinfo[s][1].id \notin StoredIds
                /\ lastCall'.id = sinfo[s][1].id
          /\ InvokeReturns(s) => (psi' = psi /\ lastCall'.ok)
          /\ (InvokeRaises(s) \/ CheckKey(s) \/ InitKey(s)) =>
                /\ Len(psi') >= Len(psi)
                /\ \A i \in 1..Len(psi) : psi'[i] = psi[i]
      ]_vars

\* C22: check_and_resume_subagents marks the earliest responded entry resumed,
\* returns that entry's subagent_id, response and id, and leaves every other
\* entry as it was; with no responded entry it returns None and changes nothing.
C22_ResumeOneInOrder ==
    [][ CheckAndResume =>
          LET responded == {i \in 1..Len(psi) : psi[i].status = "responded"}
          IN  IF responded = {}
              THEN psi' = psi /\ lastCall'.ret = None
              ELSE LET i == CHOOSE k \in responded : \A j \in responded : k <= j
                   IN  /\ Len(psi') = Len(psi)
                       /\ psi'[i] = [psi[i] EXCEPT !.status = "resumed"]
                       /\ \A j \in 1..Len(psi) : j # i => psi'[j] = psi[j]
                       /\ lastCall'.ret = Some([resume_subagent_id |-> psi[i].subagent_id,
                                                resume_value       |-> psi[i].response,
                                                interrupt_id       |-> psi[i].id])
      ]_vars

\* C22 witness: two entries were responded and both are resumed, the second one
\* by the check_and_resume_subagents call that has just returned it
C22_Witness ==
    /\ Len(psi) = 2
    /\ psi[1].status = "resumed"
    /\ psi[2].status = "resumed"
    /\ lastCall.op = "resume"
    /\ lastCall.ok
    /\ lastCall.ret[1].interrupt_id = psi[2].id
    /\ lastCall.ret[1].resume_value = psi[2].response

(***************************************************************************)
(* More claims about the reaper (SpecSess)                                 *)
(***************************************************************************)
\* C27: whatever the close command of one queued session returned, the reaper
\* releases and marks that session, goes on to the next session of the same scan,
\* and after the last one sleeps and scans again; once started it never stops.
C27_ReaperContinues ==
    [][ /\ (rpc = "close" /\ rpc' # rpc) => (rpc' = "release" /\ rlist' = rlist)
        /\ (rpc = "release" /\ rpc' # rpc) => (rpc' = "mark" /\ rlist' = rlist)
        /\ (rpc = "mark" /\ (rpc' # rpc \/ rlist' # rlist)) =>
              /\ rlist' = Tail(rlist)
              /\ rpc' = IF Tail(rlist) = <<>> THEN "sleep" ELSE "close"
        /\ (rpc = "sleep" /\ rpc' # rpc) => rpc' = "scan"
        /\ rpc # "off" => rpc' # "off"
      ]_vars

\* C27 witness: the close command for the first of two sessions queued by one scan
\* has failed, and the reaper is about to mark it and go on to the second
C27_Witness ==
    /\ rpc = "mark"
    /\ ~rres.success
    /\ rres.error # None
    /\ Len(rlist) = 2
    /\ IsActive(browser_sessions, rlist[2])

(***************************************************************************)
(* More claims about the port allocator (SpecPort)                         *)
(***************************************************************************)
\* C30: a release_port that follows a second acquisition of a thread's port (a
\* get_port_for_thread or get_stream_url that found the mapping in place, so no
\* release came in between) leaves the mapping in the table.
C30_RefCountedRelease ==
    [][ \A t \in Threads :
          (PortRelease(t) /\ portCall.op \in {"get_port", "get_stream_url"}
             /\ portCall.thread = t /\ portCall.had) =>
             t \in DOMAIN active_ports'
      ]_vars

(***************************************************************************)
(* Claims about the presented_files reducer (SpecMerge, SpecFiles)         *)
(***************************************************************************)
\* left or []
OrEmpty(list) == IF list.isNone THEN <<>> ELSE list.items
Count(items, x) == Cardinality({i \in 1..Len(items) : items[i] = x})
IsPrefix(a, b) == Len(a) <= Len(b) /\ SubSeq(b, 1, Len(a)) = a

\* C23: the reducer returns (left or []) followed by (right or []): for the
\* inputs of the last application, which made the channel, and for the channel
\* with every partial update; the result holds every element of both inputs and is
\* the same whenever it is computed.
C23_ReducerAppends ==
    /\ lastMerge.op = "merge" =>
          /\ lastMerge.out = OrEmpty(lastMerge.left) \o OrEmpty(lastMerge.right)
          /\ presented_files = ListOf(lastMerge.out)
          /\ lastMerge.out = presented_files_reducer(lastMerge.left, lastMerge.right)
    /\ \A partial \in Partials :
          LET out == presented_files_reducer(presented_files, partial)
          IN  /\ out = OrEmpty(presented_files) \o OrEmpty(partial)
              /\ \A i \in 1..Len(OrEmpty(presented_files)) : out[i] = presented_files.items[i]
              /\ \A x \in MergeEntries :
                    Count(out, x) = Count(OrEmpty(presented_files), x) + Count(OrEmpty(partial), x)

\* C23 witness: a list of two entries was merged into a list of two entries, after
\* the first application found the channel None
C23_Witness ==
    /\ lastMerge.op = "merge"
    /\ ~lastMerge.left.isNone
    /\ Len(lastMerge.left.items) = 2
    /\ ~lastMerge.right.isNone
    /\ Len(lastMerge.right.items) = 2
    /\ Len(lastMerge.out) = 4
    /\ lastMerge.out[1] # lastMerge.out[3]

\* C24: a partial update applied twice in a row leaves every one of its elements
\* in the list twice more than before, and the list before each application is a
\* prefix of the list after it.
C24_NoDedup ==
    lastMerge.op = "merge" =>
       /\ IsPrefix(OrEmpty(lastMerge.base), OrEmpty(lastMerge.left))
       /\ IsPrefix(OrEmpty(lastMerge.left), lastMerge.out)
       /\ lastMerge.again =>
             \A x \in MergeEntries :
                Count(lastMerge.out, x) =
                   Count(OrEmpty(lastMerge.base), x) + 2 * Count(OrEmpty(lastMerge.right), x)

\* C24 witness: an update holding an entry the list already had was applied twice
C24_Witness ==
    /\ lastMerge.again
    /\ ~lastMerge.base.isNone
    /\ ~lastMerge.right.isNone
    /\ Len(lastMerge.right.items) = 1
    /\ Count(lastMerge.base.items, lastMerge.right.items[1]) = 1
    /\ Count(lastMerge.out, lastMerge.right.items[1]) = 3

\* the calls whose file existed, in call order
PresentedCalls == SelectSeq(fileCalls, LAMBDA c : c.exists)

\* C26: the presented_files list holds exactly one entry per present_file call
\* whose file existed, in call order and with pairwise distinct ids, and the update
\* of a call whose file does not exist has a message and no presented_files key.
C26_OneEntryPerPresentedFile ==
    /\ Len(OrEmpty(presented_files)) = Len(PresentedCalls)
    /\ \A k \in 1..Len(PresentedCalls) :
          /\ presented_files.items[k].file_path = PresentedCalls[k].file_path
          /\ presented_files.items[k].tool_call_id = PresentedCalls[k].tool_call_id
    /\ \A i, j \in 1..Len(OrEmpty(presented_files)) :
          presented_files.items[i].id = presented_files.items[j].id => i = j
    /\ (fileCalls # <<>> /\ ~fileCalls[Len(fileCalls)].exists) =>
          /\ fileUpdate.presented_files.isNone
          /\ fileUpdate.messages # <<>>

\* C26 witness: the same path was presented twice with a call for a missing file
\* in between; the list has the two entries and the last call, again for a missing
\* file, added none
C26_Witness ==
    /\ Len(fileCalls) = 4
    /\ fileCalls[1].exists
    /\ ~fileCalls[2].exists
    /\ fileCalls[3].exists
    /\ ~fileCalls[4].exists
    /\ fileCalls[1].file_path = fileCalls[3].file_path
    /\ Len(OrEmpty(presented_files)) = 2
    /\ presented_files.items[1].id # presented_files.items[2].id

(***************************************************************************)
(* Claims about bash_execute (SpecBash)                                    *)
(***************************************************************************)
\* C25: a command matching a blocked pattern is never run and never reaches the
\* approval interrupt, auto-approved or not; a command neither blocked nor
\* auto-approved is run only in the resumption of its own interrupt and only when
\* the interrupt returned exactly "approved"; any other response gives the
\* rejection result and runs nothing; what is run matches no blocked pattern.
C25_BashGating ==
    \A i \in 1..Len(bashLog) :
       LET ev == bashLog[i]
           c == strip(ev.command)
       IN  /\ is_command_blocked(c) =>
                ev.kind = "blocked" /\ ev.ran = None /\ ev.result = "[BLOCKED]"
           /\ ev.kind = "interrupt" => ~is_command_blocked(c) /\ ~is_command_auto_approved(c)
           /\ (ev.kind = "run" /\ ~is_command_auto_approved(c)) =>
                /\ ev.resumed
                /\ ev.response = Some("approved")
                /\ i > 1
                /\ bashLog[i - 1].kind = "interrupt"
                /\ bashLog[i - 1].command = ev.command
           /\ (ev.resumed /\ ev.response # Some("approved")) =>
                ev.kind = "rejected" /\ ev.ran = None /\ ev.result = "[REJECTED]"
           /\ ev.ran # None => ev.kind = "run" /\ ~is_command_blocked(ev.ran[1])
           /\ (~is_command_blocked(c) /\ ~ev.resumed) =>
                (ev.kind = "interrupt") = ~is_command_auto_approved(c)

\* C25 witness: a command with virtual paths was approved and run, an answer of
\* "Approved" was rejected, and a command both blocked and auto-approved was blocked
C25_Witness ==
    /\ Len(bashLog) = 5
    /\ bashLog[1].kind = "interrupt"
    /\ bashLog[2].kind = "run"
    /\ bashLog[2].response = Some("approved")
    /\ bashLog[2].ran = Some("cp artifacts/a memory/b")
    /\ bashLog[3].kind = "interrupt"
    /\ bashLog[4].kind = "rejected"
    /\ bashLog[4].response = Some("Approved")
    /\ bashLog[5].command = "echo sudo"
    /\ bashLog[5].kind = "blocked"

(***************************************************************************)
(* Claims about _cleanup_stale_daemons (SpecDaemon)                        *)
(***************************************************************************)
\* C28: of two unforced calls whose interval tests are less than
\* DAEMON_CLEANUP_INTERVAL_SECONDS apart at most one scans, whatever the outcome of
\* the first scan; no two callers scan at the same time; no call raises.
C28_RateLimitedNeverFatal ==
    /\ \A i, j \in 1..Len(scanLog) :
          (/\ i < j
           /\ ~scanLog[i].force
           /\ ~scanLog[j].force
           /\ scanLog[j].at - scanLog[i].at < DAEMON_CLEANUP_INTERVAL_SECONDS)
          => ~(scanLog[i].scanned /\ scanLog[j].scanned)
    /\ Cardinality({c \in DaemonCallers : dpc[c] = "scanning"}) <= 1
    /\ \A i \in 1..Len(scanLog) : ~scanLog[i].raised

(***************************************************************************)
(* Claims about the checkpoint saver factory (SpecStorage)                 *)
(***************************************************************************)
\* C29: with DB_TYPE "postgres" and no connection string, get_checkpoint_saver
\* raises the error that names DATABASE_URL and no saver is ever constructed;
\* with DB_TYPE "sqlite" it returns an AsyncSqliteSaver on the checkpoint file,
\* whatever the connection string is.
C29_FailFast ==
    /\ (DB_TYPE = "postgres" /\ POSTGRES_URI = "") =>
          /\ saversBuilt = <<>>
          /\ ckptCall.op \in {"get_checkpoint_saver", "init_checkpoint_db"} =>
                ckptCall.raised = UriRequired /\ ckptCall.saver = None
    /\ (DB_TYPE = "sqlite" /\ ckptCall.op \in {"get_checkpoint_saver", "init_checkpoint_db"}) =>
          /\ ckptCall.raised = ""
          /\ ckptCall.saver # None
          /\ ckptCall.saver[1].class = "AsyncSqliteSaver"
          /\ ckptCall.saver[1].conn = agent_dir(PROJECT_ROOT[1]) \o <<"checkpoints", "browser_agent.db">>
          /\ agent_dir(PROJECT_ROOT[1]) \o <<"checkpoints">> \in storageDirs
    /\ \A i \in 1..Len(saversBuilt) :
          saversBuilt[i].class = "AsyncPostgresSaver" => saversBuilt[i].conn # <<"">>

\* C29 witness: get_checkpoint_saver was called with postgres configured and no
\* connection string, after other storage calls had run
C29_Witness ==
    /\ DB_TYPE = "postgres"
    /\ POSTGRES_URI = ""
    /\ ckptCall.op = "get_checkpoint_saver"
    /\ ckptCall.raised # ""
    /\ PROJECT_ROOT # None

(***************************************************************************)
(* Claims about the registry and the port table (SpecSess, SpecRace)       *)
(***************************************************************************)
\* no tool call is in flight and the reaper is not in the middle of a close
AtRest ==
    /\ \A t \in SessThreads : tpc[t] = "idle"
    /\ rpc \in {"off", "scan", "sleep"}

\* C31: with no call in flight, a thread has a port in the port table exactly
\* when the registry reports its session active.
C31_PortsMatchRegistry ==
    AtRest =>
       \A t \in SessThreads : (t \in DOMAIN active_ports) <=> IsActive(browser_sessions, t)

\* the record of the thread agrees with the port table
Consistent(t) ==
    LET session == SessionOf(browser_sessions, t)
    IN  IF session.isActive
        THEN /\ t \in DOMAIN active_ports
             /\ session.streamUrl = Some(<<"ws://localhost:", active_ports[t]>>)
        ELSE /\ session.streamUrl = None
             /\ t \notin DOMAIN active_ports

\* C32: once the reaper's close of a thread and the tool calls on the thread that
\* ran beside it have finished, an active record has the port of its streamUrl in
\* the port table, and an inactive record has no streamUrl and no port.
C32_ConsistentAfterRace ==
    AtRest => \A t \in SessThreads : HasSession(browser_sessions, t) => Consistent(t)

\* C39: the reaper issues its close command, releases the port and rewrites the
\* record only for a session that is active at that moment, and the steps that
\* mark a session inactive keep its lastActivity.
C39_ReaperClosesActiveOnly ==
    [][ /\ (rpc \in {"close", "release", "mark"} /\ rpc' # rpc) =>
              IsActive(browser_sessions, Head(rlist))
        /\ (rpc = "mark" /\ rpc' # rpc) =>
              SessionOf(browser_sessions', Head(rlist)).lastActivity
                 = SessionOf(browser_sessions, Head(rlist)).lastActivity
        /\ \A t \in SessThreads :
              (tpc[t] = "close_mark" /\ tpc'[t] = "idle" /\ HasSession(browser_sessions, t)) =>
                 SessionOf(browser_sessions', t).lastActivity
                    = SessionOf(browser_sessions, t).lastActivity
      ]_vars

\* C36: a failure of the sub-agent that is not an interrupt is propagated and
\* leaves pending_subagent_interrupts as it was: only a GraphInterrupt creates a
\* pending entry, whatever the first argument of the exception is
C36_OnlyInterruptsCaptured ==
    lastExc.exc # None /\ lastExc.exc[1].type # "GraphInterrupt"
        => ~lastExc.captured /\ ~lastExc.changed

\* C33: the ids _create_request returns are pairwise different and no creation
\* overwrites an earlier request, calls running beside each other included:
\* every returned id is the key of a stored request of its own
C33_RequestIdsUnique ==
    /\ \A i, j \in 1..Len(crLog) : i # j => crLog[i] # crLog[j]
    /\ Len(human_requests) = Len(crLog)
    /\ \A i \in 1..Len(crLog) : RequestIndex(human_requests, crLog[i]) # 0

\* the iterations whose agent.invoke returned a result
Succeeded == {i \in 1..Len(ralphLog) : ralphLog[i] # "raises"}

\* the iterations after which the reflection prompt is due: the invocation
\* returned, no completion word was found and the iteration is not the last
Reflected ==
    {i \in 1..Len(ralphLog) : ralphLog[i] \in {"plain", "no_messages"} /\ i < max_iterations}

\* C37: run_ralph_mode invokes the agent once per iteration and at most
\* max_iterations times, runs no iteration after one whose last message has a
\* completion word, appends the reflection prompt only after a successful
\* iteration that is not the last and did not complete, and returns the result
\* of the last successful invocation, the empty dict when there is none
C37_RalphLoop ==
    /\ iteration <= max_iterations
    /\ Len(ralphLog) = iteration
    /\ \A i \in 1..(Len(ralphLog) - 1) : ralphLog[i] # "completion"
    /\ (ralphLog # <<>> /\ ralphLog[Len(ralphLog)] = "completion"
            => ralph_pc \in {"after_loop", "returned"})
    /\ state_messages = <<"task">> \o [k \in 1..Cardinality(Reflected) |-> "reflection"]
    /\ results = SelectSeq([i \in 1..Len(ralphLog) |-> i], LAMBDA i : i \in Succeeded)
    /\ (ralph_pc = "returned"
            => ralph_ret = IF Succeeded = {} THEN None
                           ELSE Some(CHOOSE i \in Succeeded : \A j \in Succeeded : j <= i))

\* the loop ended on a completion word before max_iterations was reached, after
\* an iteration that was followed by the reflection prompt
C37_Witness ==
    /\ ralph_pc = "returned"
    /\ Len(ralphLog) >= 2
    /\ Len(ralphLog) < max_iterations
    /\ ralphLog[Len(ralphLog)] = "completion"
    /\ Len(state_messages) >= 2
    /\ ralph_ret = Some(Len(ralphLog))

\* C38: an exception the agent raises in an iteration before the last is
\* swallowed, the loop goes on and the message list is as it was; one raised in
\* iteration max_iterations leaves run_ralph_mode, whatever results there are
C38_LastFailureRaised ==
    [][ (iteration' = iteration + 1 /\ ralphLog'[iteration'] = "raises")
           => /\ results' = results
              /\ state_messages' = state_messages
              /\ IF iteration' < max_iterations
                 THEN ralph_pc' = "loop"
                 ELSE ralph_pc' = "raised" ]_vars

\* an early failure was swallowed, a later iteration produced a result, and the
\* failure of the last iteration was raised all the same
C38_Witness ==
    /\ ralph_pc = "raised"
    /\ Len(ralphLog) = max_iterations
    /\ ralphLog[Len(ralphLog)] = "raises"
    /\ results # <<>>
    /\ \E i \in 1..(Len(ralphLog) - 1) : ralphLog[i] = "raises"

\* C35: once a _start_cleanup_thread call has returned, and until the next
\* _stop_cleanup_thread call, a reaper is alive that goes on sweeping: one that
\* has not yet reached its loop, or one in its loop with the flag set; this for
\* every order of start and stop calls, a start that follows a stop while the
\* stopped loop is still asleep included
C35_ReaperAliveAfterStart ==
    startReturned =>
        \E h \in 1..nthreads :
            \/ tstate[h] = "entry"
            \/ tstate[h] = "loop" /\ cleanup_running

\* C34: check_human_response(thread_id, request_id) never returns the response
\* of a request of another thread, whatever the status of the request, and
\* get_pending_requests(thread_id) returns the pending requests of that thread
\* and no others
C34_ResponsesStayInThread ==
    /\ hlCall.op = "check" /\ RequestIndex(human_requests, hlCall.id) # 0
           => LET request == human_requests[RequestIndex(human_requests, hlCall.id)]
              IN  /\ request.thread_id # hlCall.thread
                         => /\ hlCall.value = None
                            /\ hlCall.text = "belongs to a different thread"
                  /\ hlCall.value # None => request.thread_id = hlCall.thread
    /\ \A t \in HumanThreads :
         LET pending == get_pending_requests(human_requests, t)
         IN  /\ {pending[i] : i \in 1..Len(pending)}
                    = {human_requests[i] : i \in {j \in 1..Len(human_requests) :
                          /\ human_requests[j].thread_id = t
                          /\ human_requests[j].status = "pending"}}
             /\ \A i, j \in 1..Len(pending) : i # j => pending[i].id # pending[j].id

\* the loop of one thread asked for the answered request of the other thread and
\* was refused, while both threads have requests of their own
C34_Witness ==
    /\ hlCall.op = "check"
    /\ hlCall.text = "belongs to a different thread"
    /\ RequestStatus(human_requests, hlCall.id) = "completed"
    /\ \E i \in 1..Len(human_requests) :
         /\ human_requests[i].thread_id = hlCall.thread
         /\ human_requests[i].status = "pending"

====
